---- MODULE Spec2Model ----
(***************************************************************************)
(* Learning core of email-assistant: correction detection (learning.rs),    *)
(* the Profile Document (profile.rs), the Prediction Store (predictions.rs) *)
(* and the scan / learn commands that drive them (main.rs).                 *)
(*                                                                          *)
(* Rust Strings are modelled as sequences of one-character strings, and     *)
(* byte offsets are 0-based as in Rust: s[a..b] is Slice(s, a, b).          *)
(***************************************************************************)
EXTENDS Integers, Sequences, FiniteSets, TLC

\* ------------------------------------------------------------------ bounds
\* Largest number of labels an email carries at the provider.
MaxLabels == 3
\* Largest number of Profile operations applied to one loaded document.
MaxOps == 3
\* Largest number of corrections one scan or learn run detects.
MaxCorrections == 60

\* ------------------------------------------------------------- str helpers
\* Option::None of a str::find.
None == -1

\* &s[a..b]
Slice(s, a, b) == SubSeq(s, a + 1, b)

\* The elements of a Vec.
Range(s) == { s[i] : i \in DOMAIN s }

\* pat occurs in s at the 0-based offset i (the first byte is compared
\* before the slice is taken).
OccursAt(s, pat, i) ==
    \/ pat = <<>>
    \/ s[i + 1] = pat[1] /\ Slice(s, i, i + Len(pat)) = pat

\* The 0-based offsets at which pat occurs in s.
Occurrences(s, pat) ==
    { i \in 0..(Len(s) - Len(pat)) : OccursAt(s, pat, i) }

\* str::find: the 0-based offset of the first occurrence of pat in s.
find(s, pat) ==
    LET last == Len(s) - Len(pat)
    IN  IF \E i \in 0..last : OccursAt(s, pat, i)
        THEN CHOOSE i \in 0..last :
                OccursAt(s, pat, i) /\ \A j \in 0..(i - 1) : ~ OccursAt(s, pat, j)
        ELSE None

\* Option<String>
Some(text) == [some |-> TRUE, value |-> text]
Nothing == [some |-> FALSE, value |-> <<>>]

\* str::contains
contains(s, pat) == find(s, pat) # None

\* str::starts_with
starts_with(s, pat) == Len(s) >= Len(pat) /\ Slice(s, 0, Len(pat)) = pat

\* char::is_whitespace on the bytes that occur
is_whitespace(c) == c \in {" ", "\n", "\t", "\r"}

\* str::trim
trim(s) ==
    IF \A i \in DOMAIN s : is_whitespace(s[i]) THEN <<>>
    ELSE SubSeq(s,
            CHOOSE i \in DOMAIN s :
                ~ is_whitespace(s[i]) /\ \A j \in 1..(i - 1) : is_whitespace(s[j]),
            CHOOSE i \in DOMAIN s :
                ~ is_whitespace(s[i]) /\ \A j \in (i + 1)..Len(s) : is_whitespace(s[j]))

\* String::insert_str
insert_str(s, pos, t) == Slice(s, 0, pos) \o t \o Slice(s, pos, Len(s))

\* u8::to_ascii_lowercase on the letters; every other byte maps to itself.
AsciiUpper ==
    <<"A","B","C","D","E","F","G","H","I","J","K","L","M",
      "N","O","P","Q","R","S","T","U","V","W","X","Y","Z">>
AsciiLower ==
    <<"a","b","c","d","e","f","g","h","i","j","k","l","m",
      "n","o","p","q","r","s","t","u","v","w","x","y","z">>

UpperToLower ==
    [c \in { AsciiUpper[i] : i \in 1..26 } |->
        AsciiLower[CHOOSE i \in 1..26 : AsciiUpper[i] = c]]

to_ascii_lowercase(c) == IF c \in DOMAIN UpperToLower THEN UpperToLower[c] ELSE c

\* Mutant of eq_ignore_ascii_case: a plain == comparison.
eq_exact_case(a, b) == a = b

\* str::eq_ignore_ascii_case
eq_ignore_ascii_case(a, b) ==
    /\ Len(a) = Len(b)
    /\ \A i \in 1..Len(a) : to_ascii_lowercase(a[i]) = to_ascii_lowercase(b[i])

\* ------------------------------------------------------------------ labels
INBOX == <<"I","N","B","O","X">>
SENT == <<"S","E","N","T">>
DRAFT == <<"D","R","A","F","T">>
TRASH == <<"T","R","A","S","H">>
SPAM == <<"S","P","A","M">>
STARRED == <<"S","T","A","R","R","E","D">>
IMPORTANT == <<"I","M","P","O","R","T","A","N","T">>
UNREAD == <<"U","N","R","E","A","D">>
CATEGORY_PERSONAL == <<"C","A","T","E","G","O","R","Y","_","P","E","R","S","O","N","A","L">>
CATEGORY_SOCIAL == <<"C","A","T","E","G","O","R","Y","_","S","O","C","I","A","L">>
CATEGORY_PROMOTIONS == <<"C","A","T","E","G","O","R","Y","_","P","R","O","M","O","T","I","O","N","S">>
CATEGORY_UPDATES == <<"C","A","T","E","G","O","R","Y","_","U","P","D","A","T","E","S">>
CATEGORY_FORUMS == <<"C","A","T","E","G","O","R","Y","_","F","O","R","U","M","S">>
Classified == <<"C","l","a","s","s","i","f","i","e","d">>

\* The labels matched by the matches! arm of is_system_label.
GmailSystemLabels ==
    { INBOX, SENT, DRAFT, TRASH, SPAM, STARRED, IMPORTANT, UNREAD,
      CATEGORY_PERSONAL, CATEGORY_SOCIAL, CATEGORY_PROMOTIONS,
      CATEGORY_UPDATES, CATEGORY_FORUMS }

\* Mutant of is_system_label: the Classified marker compared with ==.
is_system_label_exact(label) ==
    \/ label \in GmailSystemLabels
    \/ label = Classified

\* fn is_system_label(label: &str) -> bool
is_system_label(label) ==
    \/ label \in GmailSystemLabels
    \/ eq_ignore_ascii_case(label, Classified)

\* Labels the classifier predicts and labels found on emails in the model.
Finance == <<"F","i","n","a","n","c","e">>
finance_lc == <<"f","i","n","a","n","c","e">>
Important == <<"I","m","p","o","r","t","a","n","t">>
Work == <<"W","o","r","k">>
Personal == <<"P","e","r","s","o","n","a","l">>
CLASSIFIED_UC == <<"C","L","A","S","S","I","F","I","E","D">>
Workshop == <<"W","o","r","k","s","h","o","p">>

\* ------------------------------------------------------------- predictions
\* struct Prediction (confidence and timestamp are never read by the core).
Prediction(id, spam, theme, action, legacy) ==
    [ email_id |-> id, from |-> <<"a","@","x">>, subject |-> <<"s">>,
      is_spam |-> spam, theme |-> theme, action |-> action, labels |-> legacy ]

\* Prediction::all_labels
all_labels(p) ==
    IF p.theme # <<>> \/ p.action # <<>>
    THEN p.theme \o p.action
    ELSE p.labels

\* struct Email, body left out; the value of a run that holds no email.
NoEmail == [id |-> 0, from |-> <<>>, to |-> <<>>, subject |-> <<>>]

\* struct Classification with nothing set.
NoClassification ==
    [is_spam |-> FALSE, archive |-> FALSE, delete |-> FALSE, theme |-> <<>>, action |-> <<>>]

\* ---------------------------------------------------------------- provider
\* get_message(id): Err when the email is gone or the provider call fails,
\* Ok(Email) otherwise.  status is "ok", "gone" or "error".
FetchOk(m) == m.status = "ok"

VARIABLES
    predictions,    \* PredictionStore.predictions: email id -> Prediction
    order,          \* iteration order of the HashMap (all_predictions)
    mailbox,        \* provider side: email id -> [status, labels]
    pc,             \* position of the running command
    pending,        \* predictions the detect loop has still to visit
    visited,        \* ids the detect loop has visited, in order
    result,         \* LearningResult under construction / returned
    content,        \* Profile.content
    doc0,           \* Profile.content as loaded
    prev,           \* Profile.content before the last Profile operation
    ops,            \* the Profile operations applied since the load
    cmd,            \* the command that runs: "scan" or "learn"
    dry_run,        \* its --dry-run flag
    chunks,         \* result.corrections.chunks(BATCH_SIZE)
    batch,          \* index i of the chunk the batch loop is at (0-based)
    calls,          \* the external rewrite calls issued so far
    disk_profile,   \* the profile file
    profile_saves,  \* number of Profile::save calls that wrote the file
    disk_predictions, \* ids of the predictions in the predictions file
    reply,          \* a response text handed to extract_profile_update
    extracted,      \* what extract_profile_update returned for it
    mutations,      \* the mutations asked of the provider, in order
    registry,       \* LabelManager.labels: label name -> source
    disk_registry,  \* the labels file
    removed,        \* what LabelManager::cleanup returned
    target,         \* arguments of a single-email command: [id, label]
    label_query,    \* provider side: label name -> answer of list_messages(1, name)
    user_rules,     \* rules::load_rules(): the user's rules, in order
    inbox,          \* scan: the listed emails still to classify
    report,         \* what the command has printed about its findings
    rule_email,     \* rules: the email handed to apply_rules
    rule_class,     \* rules: the classification apply_rules works on
    trace,          \* rules: the classification before and after each rule
    passes          \* the runs of learn or scan that ended before this one

storeVars == <<predictions, order, mailbox>>
detectVars == <<pending, visited, result>>
histVars == <<doc0, prev, ops>>
ruleVars == <<rule_email, rule_class, trace>>
inputVars == <<target, label_query, user_rules, ruleVars, passes>>
mutVars == <<mutations, registry, disk_registry, removed, inputVars, inbox>>
extVars == <<reply, extracted, mutVars, report>>
runVars == <<cmd, dry_run, chunks, batch, calls, disk_profile, profile_saves,
             disk_predictions>>

vars == <<predictions, order, mailbox, pc, pending, visited, result,
          content, doc0, prev, ops, cmd, dry_run, chunks, batch, calls,
          disk_profile, profile_saves, disk_predictions, reply, extracted,
          mutations, registry, disk_registry, removed, target, label_query,
          user_rules, inbox, report, rule_email, rule_class, trace, passes>>

\* ------------------------------------------------------------ profile text
\* '# Email Classification Profile\n\n## Spam Patterns\n- (Add patterns as you mark emails as spam)\n\n## Important Signals\n- Emails mentioning my name directly in body are important\n- Replies to emails I sent are important\n\n## Label Rules\n\n## Learned Corrections\n'
DEFAULT_PROFILE ==
    <<"#"," ","E","m","a","i","l"," ","C","l","a","s","s","i","f","i","c","a","t","i",
      "o","n"," ","P","r","o","f","i","l","e","\n","\n","#","#"," ","S","p","a","m",
      " ","P","a","t","t","e","r","n","s","\n","-"," ","(","A","d","d"," ","p","a",
      "t","t","e","r","n","s"," ","a","s"," ","y","o","u"," ","m","a","r","k"," ","e",
      "m","a","i","l","s"," ","a","s"," ","s","p","a","m",")","\n","\n","#","#"," ",
      "I","m","p","o","r","t","a","n","t"," ","S","i","g","n","a","l","s","\n","-",
      " ","E","m","a","i","l","s"," ","m","e","n","t","i","o","n","i","n","g"," ","m",
      "y"," ","n","a","m","e"," ","d","i","r","e","c","t","l","y"," ","i","n"," ","b",
      "o","d","y"," ","a","r","e"," ","i","m","p","o","r","t","a","n","t","\n","-",
      " ","R","e","p","l","i","e","s"," ","t","o"," ","e","m","a","i","l","s"," ","I",
      " ","s","e","n","t"," ","a","r","e"," ","i","m","p","o","r","t","a","n","t",
      "\n","\n","#","#"," ","L","a","b","e","l"," ","R","u","l","e","s","\n","\n","#",
      "#"," ","L","e","a","r","n","e","d"," ","C","o","r","r","e","c","t","i","o","n",
      "s","\n">>

\* '## Learned Corrections'
LEARNED_HEADER ==
    <<"#","#"," ","L","e","a","r","n","e","d"," ","C","o","r","r","e","c","t","i","o",
      "n","s">>

\* '\n## Learned Corrections\n- '
NEW_SECTION ==
    <<"\n","#","#"," ","L","e","a","r","n","e","d"," ","C","o","r","r","e","c","t",
      "i","o","n","s","\n","-"," ">>

\* '### '
SECTION_PREFIX ==
    <<"#","#","#"," ">>

\* '\n### '
NEXT_SUBSECTION ==
    <<"\n","#","#","#"," ">>

\* '\n## '
NEXT_SECTION ==
    <<"\n","#","#"," ">>

\* format!("- {}\n", correction)
Entry(correction) == <<"-", " ">> \o correction \o <<"\n">>

\* Mutant of append_correction: the entry is pushed at the end of the text.
append_correction_push(c0, correction) ==
    IF find(c0, LEARNED_HEADER) # None
    THEN c0 \o Entry(correction)
    ELSE c0 \o NEW_SECTION \o correction \o <<"\n">>

\* Profile::append_correction, as a function of the content before
append_correction(c0, correction) ==
    LET idx == find(c0, LEARNED_HEADER) IN
    IF idx # None
    THEN LET nl == find(Slice(c0, idx, Len(c0)), <<"\n">>)
             insert_pos == IF nl # None THEN idx + nl + 1 ELSE Len(c0)
         IN  insert_str(c0, insert_pos, Entry(correction))
    ELSE c0 \o NEW_SECTION \o correction \o <<"\n">>

\* Profile::remove_label_rules, as a function of the content before
remove_label_rules(c0, label) ==
    LET section_header == SECTION_PREFIX \o label
        start == find(c0, section_header)
    IN  IF start # None
        THEN LET remaining == Slice(c0, start + Len(section_header), Len(c0))
                 sub == find(remaining, NEXT_SUBSECTION)
                 sec == find(remaining, NEXT_SECTION)
                 rel == IF sub # None THEN sub ELSE sec
                 end == IF rel # None
                        THEN start + Len(section_header) + rel
                        ELSE Len(c0)
             IN  Slice(c0, 0, start) \o Slice(c0, end, Len(c0))
        ELSE c0

\* ------------------------------------------------------ detect_corrections
\* let actual_spam = email.labels.iter().any(|l| l == "SPAM");
actual_spam(email) == \E i \in DOMAIN email.labels : email.labels[i] = SPAM

\* Mutant of removed_labels: predicted labels looked up case-sensitively.
removed_labels_exact(p, email) ==
    LET missing(pl) == ~ \E i \in DOMAIN email.labels :
                            eq_exact_case(email.labels[i], pl)
    IN  SelectSeq(all_labels(p), missing)

\* predicted labels that are no longer on the email (case-insensitive)
removed_labels(p, email) ==
    LET missing(pl) == ~ \E i \in DOMAIN email.labels :
                            eq_ignore_ascii_case(email.labels[i], pl)
    IN  SelectSeq(all_labels(p), missing)

\* labels on the email that are neither system labels nor predicted
added_labels(p, email) ==
    LET new(el) == /\ ~ is_system_label(el)
                   /\ ~ \E i \in DOMAIN all_labels(p) :
                            eq_ignore_ascii_case(all_labels(p)[i], el)
    IN  SelectSeq(email.labels, new)

\* actual_labels of a Correction: email.labels without the system labels
filtered_actual_labels(email) ==
    LET user(l) == ~ is_system_label(l) IN SelectSeq(email.labels, user)

Correction(p, email) ==
    [ email_id |-> p.email_id, from |-> p.from, subject |-> p.subject,
      predicted_labels |-> all_labels(p),
      actual_labels |-> filtered_actual_labels(email),
      predicted_spam |-> p.is_spam,
      actual_spam |-> actual_spam(email) ]

\* Mutant of is_mismatch: the spam flip alone decides.
is_mismatch_spam_only(p, email) == p.is_spam # actual_spam(email)

\* spam_mismatch || label_mismatch
is_mismatch(p, email) ==
    \/ p.is_spam # actual_spam(email)
    \/ removed_labels(p, email) # <<>>
    \/ added_labels(p, email) # <<>>

\* Mutant of detect_one: a failed fetch is reported as a correction.
detect_one_learn_from_deleted(res, p, m) ==
    IF ~ FetchOk(m)
    THEN [res EXCEPT !.corrections = Append(@, Correction(p, [labels |-> <<>>]))]
    ELSE IF is_mismatch(p, m)
         THEN [res EXCEPT !.corrections = Append(@, Correction(p, m))]
         ELSE res

\* One iteration of the for loop of detect_corrections.
detect_one(res, p, m) ==
    IF ~ FetchOk(m)
    THEN [res EXCEPT !.deleted_ids = Append(@, p.email_id)]
    ELSE IF is_mismatch(p, m)
         THEN [res EXCEPT !.corrections = Append(@, Correction(p, m))]
         ELSE res

\* Mutant of after_iteration: the loop is left at the first failed fetch.
after_iteration_abort(rest, m) == IF FetchOk(m) THEN Tail(rest) ELSE <<>>

\* What the loop has left to visit after one iteration (continue, no break).
after_iteration(rest, m) == Tail(rest)

\* LearningResult::default()
EmptyResult == [corrections |-> <<>>, deleted_ids |-> <<>>]

DetectStart ==
    /\ pc = "start"
    /\ cmd \in {"none", "scan", "learn"}
    /\ pc' = "detect"
    /\ pending' = order
    /\ visited' = <<>>
    /\ result' = EmptyResult
    /\ UNCHANGED <<storeVars, content, histVars, runVars, extVars>>

DetectStep ==
    /\ pc = "detect"
    /\ pending # <<>>
    /\ LET id == Head(pending) IN
        /\ result' = detect_one(result, predictions[id], mailbox[id])
        /\ pending' = after_iteration(pending, mailbox[id])
        /\ visited' = Append(visited, id)
    /\ UNCHANGED <<storeVars, pc, content, histVars, runVars, extVars>>

\* Ok(result)
DetectDone ==
    /\ pc = "detect"
    /\ pending = <<>>
    /\ pc' = "detected"
    /\ UNCHANGED <<storeVars, detectVars, content, histVars, runVars, extVars>>

\* --------------------------------------------- inputs of the detect model
DetectIds == {1, 2}

\* Entries written by PredictionStore::store carry theme/action and an empty
\* legacy list; entries of older files carry only the legacy list.
PredictionShapes ==
    { <<<<>>, <<>>, <<>>>>, <<<<>>, <<>>, <<Work>>>>,
      <<<<Finance>>, <<>>, <<>>>>, <<<<>>, <<Important>>, <<>>>>,
      <<<<Finance>>, <<Important>>, <<>>>> }

PredictionsFor(id) ==
    { Prediction(id, sp, sh[1], sh[2], sh[3]) :
        sp \in BOOLEAN, sh \in PredictionShapes }

\* Labels an email may carry, in the provider's listing order.
MailLabels ==
    <<INBOX, SPAM, CLASSIFIED_UC, Finance, finance_lc, Important, Work, Personal>>

LabelLists ==
    { SelectSeq(MailLabels, LAMBDA l : l \in S) :
        S \in { T \in SUBSET { MailLabels[i] : i \in DOMAIN MailLabels } :
                    Cardinality(T) <= MaxLabels } }

MailStates ==
    { [status |-> "gone", labels |-> <<>>],
      [status |-> "error", labels |-> <<INBOX>>] }
    \cup { [status |-> "ok", labels |-> ls] : ls \in LabelLists }

Orders(S) ==
    { o \in [1..Cardinality(S) -> S] : \A i, j \in DOMAIN o : i # j => o[i] # o[j] }

\* The second email of the store: one of a few prediction / mailbox pairs.
Companions ==
    { [p |-> Prediction(2, FALSE, <<Finance>>, <<>>, <<>>),
       m |-> [status |-> "gone", labels |-> <<>>]],
      [p |-> Prediction(2, FALSE, <<Finance>>, <<>>, <<>>),
       m |-> [status |-> "error", labels |-> <<INBOX>>]],
      [p |-> Prediction(2, FALSE, <<Finance>>, <<>>, <<>>),
       m |-> [status |-> "ok", labels |-> <<INBOX, Classified, Finance>>]],
      [p |-> Prediction(2, FALSE, <<Finance>>, <<>>, <<>>),
       m |-> [status |-> "ok", labels |-> <<INBOX, Classified, Personal>>]],
      [p |-> Prediction(2, FALSE, <<>>, <<Important>>, <<>>),
       m |-> [status |-> "ok", labels |-> <<SPAM>>]],
      [p |-> Prediction(2, TRUE, <<>>, <<>>, <<>>),
       m |-> [status |-> "ok", labels |-> <<INBOX>>]] }

InitDetect ==
    /\ \E S \in SUBSET DetectIds, p1 \in PredictionsFor(1), m1 \in MailStates,
          c \in Companions :
        /\ predictions = [i \in S |-> IF i = 1 THEN p1 ELSE c.p]
        /\ order \in Orders(S)
        /\ mailbox = [i \in DetectIds |->
                        IF i \notin S THEN [status |-> "gone", labels |-> <<>>]
                        ELSE IF i = 1 THEN m1 ELSE c.m]
    /\ pc = "start"
    /\ pending = <<>>
    /\ visited = <<>>
    /\ result = EmptyResult
    /\ content = DEFAULT_PROFILE
    /\ doc0 = DEFAULT_PROFILE
    /\ prev = DEFAULT_PROFILE
    /\ ops = <<>>
    /\ cmd = "none"
    /\ dry_run = FALSE
    /\ chunks = <<>>
    /\ batch = 0
    /\ calls = <<>>
    /\ disk_profile = content
    /\ profile_saves = 0
    /\ disk_predictions = DOMAIN predictions
    /\ reply = <<>>
    /\ extracted = Nothing
    /\ mutations = <<>>
    /\ registry = << >>
    /\ disk_registry = registry
    /\ removed = <<>>
    /\ target = [id |-> 0, label |-> <<>>]
    /\ label_query = << >>
    /\ user_rules = <<>>
    /\ inbox = <<>>
    /\ report = <<>>
    /\ rule_email = NoEmail
    /\ rule_class = NoClassification
    /\ trace = <<>>
    /\ passes = <<>>

NextDetect == DetectStart \/ DetectStep \/ DetectDone

SpecDetect == InitDetect /\ [][NextDetect]_vars

\* ------------------------------------------- the Profile Document on its own
ProfileAppend ==
    /\ pc = "profile"
    /\ Len(ops) < MaxOps
    /\ \E c \in { <<"x">>, <<"y">> } :
        /\ content' = append_correction(content, c)
        /\ ops' = Append(ops, [op |-> "append", arg |-> c])
    /\ prev' = content
    /\ UNCHANGED <<storeVars, pc, detectVars, doc0, runVars, extVars>>

ProfileRemove ==
    /\ pc = "profile"
    /\ Len(ops) < MaxOps
    /\ \E l \in { Work, Workshop, Finance } :
        /\ content' = remove_label_rules(content, l)
        /\ ops' = Append(ops, [op |-> "remove", arg |-> l])
    /\ prev' = content
    /\ UNCHANGED <<storeVars, pc, detectVars, doc0, runVars, extVars>>

\* '# Email Classification Profile\n\n'
Title ==
    <<"#"," ","E","m","a","i","l"," ","C","l","a","s","s","i","f","i","c","a","t","i",
      "o","n"," ","P","r","o","f","i","l","e","\n","\n">>

\* '## Label Rules\n'
LabelRules ==
    <<"#","#"," ","L","a","b","e","l"," ","R","u","l","e","s","\n">>

\* '## Notes\n- n\n'
Notes ==
    <<"#","#"," ","N","o","t","e","s","\n","-"," ","n","\n">>

\* A "### <label>" section with one rule line.
Section(label, rule) ==
    SECTION_PREFIX \o label \o <<"\n", "-", " ", rule, "\n">>

LabelParts ==
    { <<>>,
      LabelRules \o Section(Work, "w"),
      LabelRules \o Section(Workshop, "k"),
      LabelRules \o Section(Workshop, "k") \o Section(Work, "w"),
      LabelRules \o Section(Work, "w") \o Section(Finance, "f") }

CorrectionParts ==
    { <<>>,
      LEARNED_HEADER,
      LEARNED_HEADER \o <<"\n">>,
      LEARNED_HEADER \o <<"\n">> \o Entry(<<"o">>) }

TailParts == { <<>>, Section(Finance, "g"), Notes }

\* Profile documents as found on disk: the default one, and texts with label
\* sections, a corrections section (possibly last and without a final
\* newline, as a trimmed rewrite leaves it) and further sections.
ProfileDocuments ==
    { DEFAULT_PROFILE } \cup
    { Title \o d[1] \o d[2] \o d[3] :
        d \in { e \in LabelParts \X CorrectionParts \X TailParts :
                    e[2] = LEARNED_HEADER => e[3] = <<>> } }

InitProfile ==
    /\ predictions = << >>
    /\ order = <<>>
    /\ mailbox = << >>
    /\ pc = "profile"
    /\ pending = <<>>
    /\ visited = <<>>
    /\ result = EmptyResult
    /\ content \in ProfileDocuments
    /\ doc0 = content
    /\ prev = content
    /\ ops = <<>>
    /\ cmd = "none"
    /\ dry_run = FALSE
    /\ chunks = <<>>
    /\ batch = 0
    /\ calls = <<>>
    /\ disk_profile = content
    /\ profile_saves = 0
    /\ disk_predictions = DOMAIN predictions
    /\ reply = <<>>
    /\ extracted = Nothing
    /\ mutations = <<>>
    /\ registry = << >>
    /\ disk_registry = registry
    /\ removed = <<>>
    /\ target = [id |-> 0, label |-> <<>>]
    /\ label_query = << >>
    /\ user_rules = <<>>
    /\ inbox = <<>>
    /\ report = <<>>
    /\ rule_email = NoEmail
    /\ rule_class = NoClassification
    /\ trace = <<>>
    /\ passes = <<>>

NextProfile == ProfileAppend \/ ProfileRemove

SpecProfile == InitProfile /\ [][NextProfile]_vars

\* ------------------------------------------------------- apply_corrections
\* The byte 0x60 of a code fence, written as a named atom.
BACKTICK == "BACKTICK"

\* const BATCH_SIZE: usize = 25;
BATCH_SIZE == 25

\* '<fence>markdown'
FENCE_MARKDOWN ==
    <<BACKTICK,BACKTICK,BACKTICK,"m","a","r","k","d","o","w","n">>

\* '<fence>'
FENCE ==
    <<BACKTICK,BACKTICK,BACKTICK>>

\* '# Email Classification Profile'
PROFILE_TITLE ==
    <<"#"," ","E","m","a","i","l"," ","C","l","a","s","s","i","f","i","c","a","t","i",
      "o","n"," ","P","r","o","f","i","l","e">>

\* 'NO_UPDATE_NEEDED'
NO_UPDATE_NEEDED ==
    <<"N","O","_","U","P","D","A","T","E","_","N","E","E","D","E","D">>

\* '2026-11-04'
date ==
    <<"2","0","2","6","-","1","1","-","0","4">>

\* ': User marked email as spam (from: '
MARKED_SPAM ==
    <<":"," ","U","s","e","r"," ","m","a","r","k","e","d"," ","e","m","a","i","l"," ",
      "a","s"," ","s","p","a","m"," ","(","f","r","o","m",":"," ">>

\* ': User unmarked spam (false positive, from: '
UNMARKED_SPAM ==
    <<":"," ","U","s","e","r"," ","u","n","m","a","r","k","e","d"," ","s","p","a","m",
      " ","(","f","a","l","s","e"," ","p","o","s","i","t","i","v","e",","," ","f","r",
      "o","m",":"," ">>

\* ': User relabeled email (from: '
RELABELED ==
    <<":"," ","U","s","e","r"," ","r","e","l","a","b","e","l","e","d"," ","e","m","a",
      "i","l"," ","(","f","r","o","m",":"," ">>

\* ', subject: '
SUBJECT_PART ==
    <<","," ","s","u","b","j","e","c","t",":"," ">>

\* ', predicted: '
PREDICTED_PART ==
    <<","," ","p","r","e","d","i","c","t","e","d",":"," ">>

\* ', actual: '
ACTUAL_PART ==
    <<","," ","a","c","t","u","a","l",":"," ">>

\* format!("{:?}", labels) of a Vec<String> of plain labels
RECURSIVE DebugItems(_)
DebugItems(labels) ==
    IF labels = <<>> THEN <<>>
    ELSE <<"\"">> \o Head(labels) \o <<"\"">>
         \o (IF Tail(labels) = <<>> THEN <<>> ELSE <<",", " ">>)
         \o DebugItems(Tail(labels))

DebugVec(labels) == <<"[">> \o DebugItems(labels) \o <<"]">>

\* The log line of one correction (learning.rs:112-129).
description(c) ==
    IF c.predicted_spam # c.actual_spam
    THEN IF c.actual_spam
         THEN date \o MARKED_SPAM \o c.from \o SUBJECT_PART \o c.subject \o <<")">>
         ELSE date \o UNMARKED_SPAM \o c.from \o SUBJECT_PART \o c.subject \o <<")">>
    ELSE date \o RELABELED \o c.from \o PREDICTED_PART \o DebugVec(c.predicted_labels)
              \o ACTUAL_PART \o DebugVec(c.actual_labels) \o <<")">>

\* for correction in corrections { self.profile.append_correction(..) }
\* One turn of the loop per index i, from the first correction on; the text
\* of a turn is complete (and never empty) before the next turn starts.
RECURSIVE record_corrections(_, _, _)
record_corrections(c0, corrections, i) ==
    IF i > Len(corrections) THEN c0
    ELSE LET appended == append_correction(c0, description(corrections[i]))
         IN  IF Len(appended) > 0
             THEN record_corrections(appended, corrections, i + 1)
             ELSE appended

\* fn extract_profile_update(response: &str) -> Option<String>
extract_profile_update(response) ==
    LET md == find(response, FENCE_MARKDOWN)
        md_from == md + Len(FENCE_MARKDOWN)
        md_end == IF md # None
                  THEN find(Slice(response, md_from, Len(response)), FENCE)
                  ELSE None
        start == find(response, FENCE)
        content_start == start + Len(FENCE)
        nl == IF start # None
              THEN find(Slice(response, content_start, Len(response)), <<"\n">>)
              ELSE None
        actual_start == IF nl # None THEN content_start + nl + 1 ELSE content_start
        end == IF start # None
               THEN find(Slice(response, actual_start, Len(response)), FENCE)
               ELSE None
        trimmed == trim(response)
    IN  IF md # None /\ md_end # None
        THEN Some(trim(Slice(response, md_from, md_from + md_end)))
        ELSE IF start # None /\ end # None
        THEN Some(trim(Slice(response, actual_start, actual_start + end)))
        ELSE IF starts_with(trimmed, PROFILE_TITLE)
        THEN Some(trimmed)
        ELSE Nothing

\* How one run of the claude CLI ends.
ErrKinds == {"spawn_error", "timeout"}

\* Mutant of get_batched_profile_update: an answer without a profile text is
\* an Err.
get_batched_profile_update_strict(outcome) ==
    IF outcome.kind \in ErrKinds \/ outcome.kind = "exit_failure"
    THEN [ok |-> FALSE, update |-> Nothing]
    ELSE LET response == trim(outcome.stdout)
             text == extract_profile_update(response)
         IN  IF contains(response, NO_UPDATE_NEEDED) \/ ~ text.some
             THEN [ok |-> FALSE, update |-> Nothing]
             ELSE [ok |-> TRUE, update |-> text]

\* get_batched_profile_update: [ok |-> FALSE] is Err, [ok |-> TRUE, update]
\* is Ok(update).
get_batched_profile_update(outcome) ==
    IF outcome.kind \in ErrKinds
    THEN [ok |-> FALSE, update |-> Nothing]
    ELSE IF outcome.kind = "exit_failure"
    THEN [ok |-> TRUE, update |-> Nothing]
    ELSE LET response == trim(outcome.stdout)
         IN  IF contains(response, NO_UPDATE_NEEDED)
             THEN [ok |-> TRUE, update |-> Nothing]
             ELSE [ok |-> TRUE, update |-> extract_profile_update(response)]

\* Mutant of slice_chunks: chunks_exact, which drops a shorter last chunk.
slice_chunks_exact(xs, n) ==
    [k \in 1..(Len(xs) \div n) |-> SubSeq(xs, (k - 1) * n + 1, k * n)]

\* <[T]>::chunks(n)
slice_chunks(xs, n) ==
    [k \in 1..((Len(xs) + n - 1) \div n) |->
        SubSeq(xs, (k - 1) * n + 1, IF k * n < Len(xs) THEN k * n ELSE Len(xs))]

\* ---------------------------------------------------- inputs of a run
\* 'Sure!\n<fence>markdown\n# Email Classification Profile\n\n## Label Rules\n### Finance\n- f\n\n## Learned Corrections\n<fence>\n'
RewriteFenced ==
    <<"S","u","r","e","!","\n",BACKTICK,BACKTICK,BACKTICK,"m","a","r","k","d","o","w","n","\n","#",
      " ","E","m","a","i","l"," ","C","l","a","s","s","i","f","i","c","a","t","i","o",
      "n"," ","P","r","o","f","i","l","e","\n","\n","#","#"," ","L","a","b","e","l",
      " ","R","u","l","e","s","\n","#","#","#"," ","F","i","n","a","n","c","e","\n",
      "-"," ","f","\n","\n","#","#"," ","L","e","a","r","n","e","d"," ","C","o","r",
      "r","e","c","t","i","o","n","s","\n",BACKTICK,BACKTICK,BACKTICK,"\n">>

\* '<fence>\n# Email Classification Profile\n\n## Learned Corrections\n- kept\n<fence>'
RewriteGeneric ==
    <<BACKTICK,BACKTICK,BACKTICK,"\n","#"," ","E","m","a","i","l"," ","C","l","a","s","s","i","f",
      "i","c","a","t","i","o","n"," ","P","r","o","f","i","l","e","\n","\n","#","#",
      " ","L","e","a","r","n","e","d"," ","C","o","r","r","e","c","t","i","o","n","s",
      "\n","-"," ","k","e","p","t","\n",BACKTICK,BACKTICK,BACKTICK>>

\* '\n# Email Classification Profile\n\n## Spam Patterns\n- p\n'
RewriteBare ==
    <<"\n","#"," ","E","m","a","i","l"," ","C","l","a","s","s","i","f","i","c","a",
      "t","i","o","n"," ","P","r","o","f","i","l","e","\n","\n","#","#"," ","S","p",
      "a","m"," ","P","a","t","t","e","r","n","s","\n","-"," ","p","\n">>

\* 'I cannot update the profile.'
RewriteRefusal ==
    <<"I"," ","c","a","n","n","o","t"," ","u","p","d","a","t","e"," ","t","h","e"," ",
      "p","r","o","f","i","l","e",".">>

\* 'NO_UPDATE_NEEDED\n'
RewriteNoUpdate ==
    <<"N","O","_","U","P","D","A","T","E","_","N","E","E","D","E","D","\n">>

\* What the claude process does: it cannot be spawned, never answers, exits
\* with a failure status, or exits with success and an output.
ProcessRuns ==
    { [kind |-> "spawn_error", stdout |-> <<>>],
      [kind |-> "no_answer", stdout |-> <<>>],
      [kind |-> "exit_failure", stdout |-> <<>>] }
    \cup { [kind |-> "exit_success", stdout |-> r] :
            r \in { RewriteFenced, RewriteGeneric, RewriteBare, RewriteRefusal,
                    RewriteNoUpdate } }

\* Command::output().await with no timeout around it: a process that never
\* answers leaves the caller waiting for ever.
await_plain(run) ==
    IF run.kind = "no_answer" THEN [run EXCEPT !.kind = "hung"] ELSE run

\* timeout(Duration::from_secs(..), ..).await.context("... timed out ...")?
await_with_timeout(run) ==
    IF run.kind = "no_answer" THEN [run EXCEPT !.kind = "timeout"] ELSE run

\* The ways a call of the external rewrite ends: those of the process, seen
\* through the timeout.
ExternalOutcomes == { await_with_timeout(run) : run \in ProcessRuns }

\* Mutant of update: the new text is merged behind the old content.
update_merge(c0, new_content) == c0 \o new_content

\* Profile::update: self.content = new_content
update(c0, new_content) == new_content

\* ------------------------------------------------- commands scan and learn
had_corrections == result.corrections # <<>>

\* The ids of the corrections, as the commands list them.
CorrectionIds == [i \in DOMAIN result.corrections |-> result.corrections[i].email_id]

\* After detect_corrections: the corrections are listed, and unless this is
\* a dry run they are cut into chunks for the batch loop.
RunReport ==
    /\ pc = "detected"
    /\ cmd \in {"scan", "learn"}
    /\ IF had_corrections /\ ~ dry_run
       THEN /\ chunks' = slice_chunks(result.corrections, BATCH_SIZE)
            /\ pc' = IF Len(chunks') = 0 THEN "save" ELSE "apply"
       ELSE /\ chunks' = <<>>
            /\ pc' = "save"
    /\ batch' = 0
    /\ report' = IF had_corrections \/ cmd = "learn"
                 THEN Append(report, [what |-> "corrections", items |-> CorrectionIds])
                 ELSE report
    /\ UNCHANGED <<reply, extracted, mutVars, storeVars, detectVars, content, histVars,
                   cmd, dry_run, calls, disk_profile, profile_saves, disk_predictions>>

\* One turn of the batch loop: learning.apply_corrections(chunk).  scan warns
\* and goes on when it returns Err; learn propagates the Err with `?`.
ApplyBatch ==
    /\ pc = "apply"
    /\ batch < Len(chunks)
    /\ LET chunk == chunks[batch + 1]
           logged == record_corrections(content, chunk, 1)
       IN  \E outcome \in ExternalOutcomes :
        LET got == get_batched_profile_update(outcome)
        IN  /\ calls' = Append(calls,
                    [ batch |-> [i \in DOMAIN chunk |-> chunk[i].email_id],
                      base |-> content,
                      profile |-> logged,
                      kind |-> outcome.kind,
                      stdout |-> outcome.stdout ])
            /\ content' = IF got.ok /\ got.update.some
                          THEN update(logged, got.update.value)
                          ELSE logged
            /\ IF ~ got.ok /\ cmd = "learn"
               THEN pc' = "failed" /\ batch' = batch
               ELSE /\ batch' = batch + 1
                    /\ pc' = IF batch + 1 = Len(chunks) THEN "save" ELSE "apply"
    /\ UNCHANGED <<extVars, storeVars, detectVars, histVars, cmd, dry_run, chunks,
                   disk_profile, profile_saves, disk_predictions>>

\* if had_corrections && !dry_run { profile.save()?; }
SaveProfile ==
    /\ pc = "save"
    /\ IF had_corrections /\ ~ dry_run
       THEN \E io_ok \in BOOLEAN :
               IF io_ok
               THEN /\ disk_profile' = content
                    /\ profile_saves' = profile_saves + 1
                    /\ pc' = "cleanup"
               ELSE /\ pc' = "failed"
                    /\ UNCHANGED <<disk_profile, profile_saves>>
       ELSE /\ pc' = "cleanup"
            /\ UNCHANGED <<disk_profile, profile_saves>>
    /\ UNCHANGED <<extVars, storeVars, detectVars, content, histVars, cmd, dry_run, chunks,
                   batch, calls, disk_predictions>>

\* PredictionStore::remove for every id of deleted_ids
remove_all(store, ids) == [i \in DOMAIN store \ Range(ids) |-> store[i]]

\* Clean up predictions for deleted emails.  scan removes them in memory and
\* goes on to classify; learn removes them and saves the store.
CleanupPredictions ==
    /\ pc = "cleanup"
    /\ IF ~ dry_run /\ (cmd = "scan" \/ result.deleted_ids # <<>>)
       THEN /\ predictions' = remove_all(predictions, result.deleted_ids)
            /\ order' = SelectSeq(order, LAMBDA i : i \notin Range(result.deleted_ids))
       ELSE UNCHANGED <<predictions, order>>
    /\ IF ~ dry_run /\ cmd = "learn" /\ result.deleted_ids # <<>>
       THEN disk_predictions' = DOMAIN predictions'
       ELSE UNCHANGED disk_predictions
    /\ pc' = IF cmd = "scan" THEN "classify" ELSE "done"
    /\ report' = IF cmd = "learn" /\ result.deleted_ids # <<>>
                 THEN Append(report, [what |-> "deleted", items |-> result.deleted_ids])
                 ELSE report
    /\ UNCHANGED <<reply, extracted, mutVars, mailbox, detectVars, content, histVars,
                   cmd, dry_run, chunks, batch, calls, disk_profile, profile_saves>>

\* The store of a run that will detect n corrections: spam flips both ways
\* and relabelings in turn, then (with_others) a deleted and an untouched email.
RunPrediction(i, n) ==
    IF i > n THEN Prediction(i, FALSE, <<Finance>>, <<>>, <<>>)
    ELSE IF i % 3 = 1 THEN Prediction(i, FALSE, <<>>, <<Important>>, <<>>)
    ELSE IF i % 3 = 2 THEN Prediction(i, TRUE, <<>>, <<>>, <<>>)
    ELSE Prediction(i, FALSE, <<Finance>>, <<Important>>, <<>>)

RunMail(i, n) ==
    IF i = n + 1 THEN [status |-> "gone", labels |-> <<>>]
    ELSE IF i = n + 2 THEN [status |-> "ok", labels |-> <<INBOX, Classified, finance_lc>>]
    ELSE IF i % 3 = 1 THEN [status |-> "ok", labels |-> <<SPAM>>]
    ELSE IF i % 3 = 2 THEN [status |-> "ok", labels |-> <<INBOX, Classified>>]
    ELSE [status |-> "ok", labels |-> <<INBOX, Classified, Finance, Personal>>]

CorrectionCounts ==
    { 0, 1, 2, BATCH_SIZE - 1, BATCH_SIZE, BATCH_SIZE + 1,
      2 * BATCH_SIZE, MaxCorrections }

InitRun ==
    /\ \E n \in CorrectionCounts, with_others \in BOOLEAN :
        LET ids == 1..(IF with_others THEN n + 2 ELSE n)
            descending == with_others
        IN
        /\ predictions = [i \in ids |-> RunPrediction(i, n)]
        /\ mailbox = [i \in ids |-> RunMail(i, n)]
        /\ order = [k \in 1..Cardinality(ids) |->
                        IF descending THEN Cardinality(ids) + 1 - k ELSE k]
    /\ pc = "start"
    /\ pending = <<>>
    /\ visited = <<>>
    /\ result = EmptyResult
    /\ content \in { DEFAULT_PROFILE, Title \o LEARNED_HEADER }
    /\ doc0 = content
    /\ prev = content
    /\ ops = <<>>
    /\ cmd \in {"scan", "learn"}
    /\ dry_run \in BOOLEAN
    /\ chunks = <<>>
    /\ batch = 0
    /\ calls = <<>>
    /\ disk_profile = content
    /\ profile_saves = 0
    /\ disk_predictions = DOMAIN predictions
    /\ reply = <<>>
    /\ extracted = Nothing
    /\ mutations = <<>>
    /\ registry = << >>
    /\ disk_registry = registry
    /\ removed = <<>>
    /\ target = [id |-> 0, label |-> <<>>]
    /\ label_query = << >>
    /\ user_rules = <<>>
    /\ inbox = <<>>
    /\ report = <<>>
    /\ rule_email = NoEmail
    /\ rule_class = NoClassification
    /\ trace = <<>>
    /\ passes = <<>>

NextRun ==
    \/ DetectStart
    \/ DetectStep
    \/ DetectDone
    \/ RunReport
    \/ ApplyBatch
    \/ SaveProfile
    \/ CleanupPredictions

SpecRun == InitRun /\ [][NextRun]_vars

\* ------------------------------------------------- requests to a provider
\* One call of add_label, archive, trash, mark_spam or unspam and whether the
\* provider returned Ok.
Request(op, id, label, ok) == [op |-> op, id |-> id, label |-> label, ok |-> ok]

\* --------------------------- commands spam, unspam, archive, delete, label
\* Mutant of learn_from_action: a non-success exit gives Ok(None), as in
\* get_batched_profile_update.
learn_from_action_lenient(outcome) ==
    IF outcome.kind \in ErrKinds
    THEN [ok |-> FALSE, update |-> Nothing]
    ELSE get_batched_profile_update(outcome)

\* LearningEngine::learn_from_action: the spawn error, the timeout and the
\* non-success exit are all Err.
learn_from_action(outcome) ==
    IF outcome.kind \in ErrKinds \/ outcome.kind = "exit_failure"
    THEN [ok |-> FALSE, update |-> Nothing]
    ELSE LET response == trim(outcome.stdout)
         IN  IF contains(response, NO_UPDATE_NEEDED)
             THEN [ok |-> TRUE, update |-> Nothing]
             ELSE [ok |-> TRUE, update |-> extract_profile_update(response)]

ActionCommands == {"spam", "unspam", "archive", "delete", "label"}

\* The commands that learn from the action they took.
LearningCommands == {"spam", "unspam", "label"}

\* The provider call of each command.
ProviderCall(c) ==
    CASE c = "spam" -> "mark_spam"
      [] c = "unspam" -> "unspam"
      [] c = "archive" -> "archive"
      [] c = "delete" -> "trash"
      [] c = "label" -> "add_label"

\* Mutant of CommandFetch: the dry-run flag is not looked at.
CommandFetch_ignoring_dry_run ==
    /\ pc = "start"
    /\ cmd \in ActionCommands
    /\ pc' = IF ~ FetchOk(mailbox[target.id]) THEN "failed" ELSE "mutate"
    /\ UNCHANGED <<storeVars, detectVars, content, histVars, runVars, reply, extracted,
                   mutVars, report>>

\* let email = provider.get_message(id).await?; then the dry-run branch.
CommandFetch ==
    /\ pc = "start"
    /\ cmd \in ActionCommands
    /\ IF ~ FetchOk(mailbox[target.id])
       THEN pc' = "failed" /\ UNCHANGED report
       ELSE IF dry_run
       THEN /\ report' = Append(report, [what |-> "would", items |-> <<target.id>>])
            /\ pc' = "done"
       ELSE pc' = "mutate" /\ UNCHANGED report
    /\ UNCHANGED <<storeVars, detectVars, content, histVars, runVars, reply, extracted,
                   mutVars>>

\* provider.mark_spam(id).await? and its like: the request is sent, and the
\* command ends with the error when the provider refuses it.
CommandMutate ==
    /\ pc = "mutate"
    /\ \E accepted \in BOOLEAN :
        /\ mutations' = Append(mutations,
                [ op |-> ProviderCall(cmd), id |-> target.id,
                  label |-> IF cmd = "label" THEN target.label ELSE <<>>,
                  ok |-> accepted ])
        /\ pc' = IF ~ accepted THEN "failed"
                 ELSE IF cmd \in LearningCommands THEN "learning" ELSE "done"
        /\ report' = IF accepted
                     THEN Append(report, [what |-> "did", items |-> <<target.id>>])
                     ELSE report
    /\ UNCHANGED <<storeVars, detectVars, content, histVars, runVars, reply,
                   extracted, registry, disk_registry, removed, inputVars, inbox>>

\* let prediction = self.predictions.get(email_id); and what the prompt of
\* learn_from_action says of it: "Previous prediction: is_spam={}, labels={:?}"
\* with p.is_spam and p.labels, or "No previous prediction".
prediction_context(store, email_id) ==
    IF email_id \in DOMAIN store
    THEN [ previous |-> TRUE, is_spam |-> store[email_id].is_spam,
           labels |-> store[email_id].labels ]
    ELSE [ previous |-> FALSE, is_spam |-> FALSE, labels |-> <<>> ]

\* if let Some(update) = learning.learn_from_action(..).await? { print;
\* profile.save()?; }  learn_from_action takes &self and hands the text
\* back; nothing assigns it to the profile before the save.
CommandLearn ==
    /\ pc = "learning"
    /\ \E outcome \in ExternalOutcomes :
        LET got == learn_from_action(outcome)
        IN  /\ calls' = Append(calls,
                    [ batch |-> <<target.id>>, base |-> content, profile |-> content,
                      context |-> prediction_context(predictions, target.id),
                      kind |-> outcome.kind, stdout |-> outcome.stdout ])
            /\ IF ~ got.ok
               THEN pc' = "failed" /\ UNCHANGED <<report, disk_profile, profile_saves>>
               ELSE IF ~ got.update.some
               THEN pc' = "done" /\ UNCHANGED <<report, disk_profile, profile_saves>>
               ELSE /\ report' = Append(report, [what |-> "profile_updated",
                                                 items |-> got.update.value])
                    /\ \E io_ok \in BOOLEAN :
                        IF io_ok
                        THEN /\ disk_profile' = content
                             /\ profile_saves' = profile_saves + 1
                             /\ pc' = "done"
                        ELSE /\ pc' = "failed"
                             /\ UNCHANGED <<disk_profile, profile_saves>>
    /\ UNCHANGED <<storeVars, detectVars, content, histVars, cmd, dry_run, chunks, batch,
                   disk_predictions, reply, extracted, mutVars>>

\* ------------------------------------------------- command labels cleanup
\* The orders in which a HashMap may hand out the names of S.
Orderings(S) ==
    { o \in [1..Cardinality(S) -> S] : \A i, j \in DOMAIN o : o[i] = o[j] => i = j }

\* provider.list_messages(1, label, None): Ok with an email, Ok(empty), or
\* Err, be it because the label does not exist or because the call failed.
ListMessagesOk(answer) == answer \in {"mail", "empty"}

\* One turn of the loop of LabelManager::cleanup.
cleanup_one(st, label_name, answer) ==
    IF answer = "empty" \/ ~ ListMessagesOk(answer)
    THEN [ labels |-> [n \in DOMAIN st.labels \ {label_name} |-> st.labels[n]],
           content |-> remove_label_rules(st.content, label_name),
           removed |-> Append(st.removed, label_name) ]
    ELSE st

\* LabelManager::cleanup over the llm labels in the order llm_labels.
RECURSIVE cleanup(_, _, _)
cleanup(st, llm_labels, answers) ==
    IF llm_labels = <<>> THEN st
    ELSE cleanup(cleanup_one(st, Head(llm_labels), answers[Head(llm_labels)]),
                 Tail(llm_labels), answers)

\* let removed = label_manager.cleanup(&provider, &mut profile).await?;
CleanupLabels ==
    /\ pc = "start"
    /\ cmd = "labels_cleanup"
    /\ \E llm_labels \in Orderings({ n \in DOMAIN registry : registry[n] = "llm" }) :
        LET out == cleanup([labels |-> registry, content |-> content, removed |-> <<>>],
                           llm_labels, label_query)
        IN  /\ registry' = out.labels
            /\ content' = out.content
            /\ removed' = out.removed
    /\ pc' = "cleaned"
    /\ UNCHANGED <<storeVars, detectVars, histVars, runVars, reply, extracted, mutations,
                   disk_registry, inputVars, inbox, report>>

\* The listing of the removed labels, and label_manager.save()?;
\* profile.save()?; unless this is a dry run.
CleanupReport ==
    /\ pc = "cleaned"
    /\ report' = Append(report,
            [ what |-> IF removed = <<>> THEN "nothing"
                       ELSE IF dry_run THEN "would_remove" ELSE "removed",
              items |-> removed ])
    /\ IF removed # <<>> /\ ~ dry_run
       THEN \E io \in {"ok", "labels_failed", "profile_failed"} :
            /\ disk_registry' = IF io = "labels_failed" THEN disk_registry ELSE registry
            /\ disk_profile' = IF io = "ok" THEN content ELSE disk_profile
            /\ profile_saves' = IF io = "ok" THEN profile_saves + 1 ELSE profile_saves
            /\ pc' = IF io = "ok" THEN "done" ELSE "failed"
       ELSE /\ pc' = "done"
            /\ UNCHANGED <<disk_registry, disk_profile, profile_saves>>
    /\ UNCHANGED <<storeVars, detectVars, content, histVars, cmd, dry_run, chunks, batch,
                   calls, disk_predictions, reply, extracted, mutations, registry,
                   removed, inputVars, inbox>>

\* ------------------------------------------------------------ rules.rs
LowerToUpper ==
    [c \in { AsciiLower[i] : i \in 1..26 } |->
        AsciiUpper[CHOOSE i \in 1..26 : AsciiLower[i] = c]]

\* char::to_uppercase on ASCII
to_ascii_uppercase(c) == IF c \in DOMAIN LowerToUpper THEN LowerToUpper[c] ELSE c

\* str::to_lowercase on ASCII text
to_lowercase(s) == [i \in DOMAIN s |-> to_ascii_lowercase(s[i])]

\* The email a provider hands out for id; the labels live in mailbox.
Email(id) ==
    [ id |-> id, from |-> <<"a","@","x">>, to |-> <<"M","e","@","X">>,
      subject |-> <<"s">> ]

\* Mutant of matches_condition: the field is searched case-sensitively.
matches_condition_exact_case(email, classification, condition) ==
    LET field_matches ==
            IF condition.field \in {"to", "from", "subject"}
            THEN contains(email[condition.field], condition.contains)
            ELSE FALSE
    IN  IF ~ field_matches THEN FALSE
        ELSE IF ~ condition.and.some THEN TRUE
        ELSE IF condition.and.value = "archive" THEN classification.archive
        ELSE IF condition.and.value = "delete" THEN classification.delete
        ELSE TRUE

\* fn matches_condition(email, classification, condition) -> bool
matches_condition(email, classification, condition) ==
    LET field_matches ==
            IF condition.field \in {"to", "from", "subject"}
            THEN contains(to_lowercase(email[condition.field]),
                          to_lowercase(condition.contains))
            ELSE FALSE
    IN  IF ~ field_matches THEN FALSE
        ELSE IF ~ condition.and.some THEN TRUE
        ELSE IF condition.and.value = "archive" THEN classification.archive
        ELSE IF condition.and.value = "delete" THEN classification.delete
        ELSE TRUE

\* The body of the loop of apply_rules for one rule.
apply_rule(email, classification, rule) ==
    IF ~ matches_condition(email, classification, rule.condition)
    THEN classification
    ELSE IF rule.action = "delete"
    THEN [classification EXCEPT !.delete = TRUE, !.archive = FALSE]
    ELSE IF rule.action = "archive"
    THEN [classification EXCEPT !.archive = TRUE]
    ELSE classification

\* Mutant of apply_rules: the rules are applied from the last to the first.
RECURSIVE apply_rules_reversed(_, _, _)
apply_rules_reversed(email, classification, rules) ==
    IF rules = <<>> THEN classification
    ELSE apply_rule(email, apply_rules_reversed(email, classification, Tail(rules)),
                    Head(rules))

\* pub fn apply_rules(email, classification, rules)
RECURSIVE apply_rules(_, _, _)
apply_rules(email, classification, rules) ==
    IF rules = <<>> THEN classification
    ELSE apply_rules(email, apply_rule(email, classification, Head(rules)), Tail(rules))

\* --------------------------------------------------------- classifier.rs
\* fn capitalize_first(s: &str) -> String
capitalize_first(s) ==
    IF s = <<>> THEN <<>> ELSE <<to_ascii_uppercase(s[1])>> \o Tail(s)

\* retain(|l| !l.eq_ignore_ascii_case("Classified")), then capitalize_first
clean_labels(labels) ==
    LET kept == SelectSeq(labels, LAMBDA l : ~ eq_ignore_ascii_case(l, Classified))
    IN  [i \in DOMAIN kept |-> capitalize_first(kept[i])]

\* The end of Classifier::classify, from the parsed Classification on.
finish_classification(parsed) ==
    [parsed EXCEPT !.theme = clean_labels(parsed.theme),
                   !.action = clean_labels(parsed.action)]

\* Classification::labels
classification_labels(c) == c.theme \o c.action

Classification(spam, archive, delete, theme, action) ==
    [ is_spam |-> spam, archive |-> archive, delete |-> delete,
      theme |-> theme, action |-> action ]

\* Classifications as the model may answer them, before classify cleans them.
ParsedClassifications ==
    { Classification(FALSE, FALSE, FALSE, <<finance_lc>>, <<Important>>),
      Classification(TRUE, FALSE, FALSE, <<>>, <<>>),
      Classification(FALSE, TRUE, FALSE, <<Work>>, <<Classified>>),
      Classification(FALSE, FALSE, TRUE, <<Work>>, <<>>) }

\* How one run of Classifier::classify ends.  The process is awaited with no
\* timeout around it.
ClassifyRuns ==
    { await_plain([kind |-> k, stdout |-> <<>>]) :
        k \in {"spawn_error", "no_answer", "exit_failure", "unparsable"} }

\* ------------------------------------------------ scan, step 2: classify
\* The requests scan sends for one classified email; refused names the kind
\* of request the provider turns down, if any.
ScanRequests(id, c, refused) ==
    IF c.delete
    THEN << Request("trash", id, <<>>, refused # "trash") >>
    ELSE LET labels == classification_labels(c)
         IN  [i \in DOMAIN labels |->
                    Request("add_label", id, labels[i], refused # "label")]
             \o << Request("add_label", id, Classified, refused # "classified") >>
             \o (IF c.archive
                 THEN << Request("archive", id, <<>>, refused # "archive") >>
                 ELSE <<>>)

\* let emails = provider.list_messages(max, label, Some("-label:Classified")).await?;
ScanList ==
    /\ pc = "classify"
    /\ cmd = "scan"
    /\ \E listed \in BOOLEAN : pc' = IF listed THEN "classifying" ELSE "failed"
    /\ UNCHANGED <<storeVars, detectVars, content, histVars, runVars, extVars>>

\* One turn of the loop over the listed emails.
ScanClassify ==
    /\ pc = "classifying"
    /\ inbox # <<>>
    /\ LET id == Head(inbox) IN
       \/ \E run \in ClassifyRuns :
            /\ pc' = IF run.kind = "hung" THEN "hung" ELSE "failed"
            /\ UNCHANGED <<storeVars, mutations, inbox, report>>
       \/ \E parsed \in ParsedClassifications :
            LET c == apply_rules(Email(id), finish_classification(parsed), user_rules)
            IN  /\ report' = Append(report, [what |-> "classified", items |-> <<id>>])
                /\ inbox' = Tail(inbox)
                /\ pc' = pc
                /\ IF dry_run
                   THEN UNCHANGED <<storeVars, mutations>>
                   ELSE \E refused \in {"none", "trash", "label", "classified", "archive"} :
                        LET reqs == ScanRequests(id, c, refused)
                            stored == ~ c.delete /\ refused # "classified"
                        IN  /\ mutations' = mutations \o reqs
                            /\ UNCHANGED mailbox
                            /\ predictions' =
                                IF stored
                                THEN [i \in DOMAIN predictions \cup {id} |->
                                        IF i = id
                                        THEN Prediction(id, c.is_spam, c.theme, c.action, <<>>)
                                        ELSE predictions[i]]
                                ELSE predictions
                            /\ order' = IF stored /\ id \notin Range(order)
                                        THEN Append(order, id) ELSE order
    /\ UNCHANGED <<detectVars, content, histVars, runVars, reply, extracted, registry,
                   disk_registry, removed, inputVars>>

\* if !dry_run { predictions.save()?; } else { println!(..) }
ScanSave ==
    /\ pc = "classifying"
    /\ inbox = <<>>
    /\ IF dry_run
       THEN /\ report' = Append(report, [what |-> "would_save", items |-> <<>>])
            /\ pc' = "done"
            /\ UNCHANGED disk_predictions
       ELSE /\ UNCHANGED report
            /\ \E io_ok \in BOOLEAN :
                IF io_ok
                THEN disk_predictions' = DOMAIN predictions /\ pc' = "done"
                ELSE pc' = "failed" /\ UNCHANGED disk_predictions
    /\ UNCHANGED <<storeVars, detectVars, content, histVars, cmd, dry_run, chunks, batch,
                   calls, disk_profile, profile_saves, reply, extracted, mutVars>>

\* ------------------------------------------------------- command summary
\* list_messages, the prompt, and the claude process awaited with a timeout
\* of 60 s; the answer is printed.
SummaryRun ==
    /\ pc = "start"
    /\ cmd = "summary"
    /\ \E listed \in BOOLEAN :
        IF ~ listed THEN pc' = "failed" /\ UNCHANGED report
        ELSE IF inbox = <<>>
        THEN /\ report' = Append(report, [what |-> "no_emails", items |-> <<>>])
             /\ pc' = "done"
        ELSE \E run \in ProcessRuns :
             LET outcome == await_with_timeout(run)
             IN  IF outcome.kind = "exit_success"
                 THEN /\ report' = Append(report, [what |-> "summary",
                                                   items |-> trim(outcome.stdout)])
                      /\ pc' = "done"
                 ELSE /\ report' = Append(report, [what |-> outcome.kind, items |-> <<>>])
                      /\ pc' = "failed"
    /\ UNCHANGED <<storeVars, detectVars, content, histVars, runVars, reply, extracted,
                   mutVars>>

\* ------------------------------------------------ the commands, one run each
MaxInbox == 2

Commands ==
    {"scan", "learn", "labels_cleanup", "summary"} \cup ActionCommands

\* rules.json: delete what is addressed to me@
RuleDeleteTo ==
    [ condition |-> [ field |-> "to", contains |-> <<"m","e","@">>, and |-> Nothing ],
      action |-> "delete" ]

\* rules.json: archive what a@x sends
RuleArchiveFrom ==
    [ condition |-> [ field |-> "from", contains |-> <<"A","@","x">>, and |-> Nothing ],
      action |-> "archive" ]

\* rules.json: delete what has subject s and is to be archived
RuleDeleteArchived ==
    [ condition |-> [ field |-> "subject", contains |-> <<"s">>,
                      and |-> [some |-> TRUE, value |-> "archive"] ],
      action |-> "delete" ]

RuleSets ==
    { <<>>, <<RuleDeleteTo>>, <<RuleDeleteArchived>>,
      <<RuleArchiveFrom, RuleDeleteArchived>> }

\* The labels the label manager knows in a run of labels cleanup.
KnownLabels == {Work, Finance}

\* Profiles a run of labels cleanup finds, with and without sections for
\* the known labels.
CleanupDocuments ==
    { DEFAULT_PROFILE,
      Title \o LabelRules \o Section(Work, "w") \o Section(Finance, "f"),
      Title \o LabelRules \o Section(Workshop, "k") \o Section(Work, "w") \o Notes }

InitCommands ==
    /\ cmd \in Commands
    /\ dry_run \in BOOLEAN
    /\ target \in IF cmd \in ActionCommands
                  THEN { [id |-> i, label |-> IF cmd = "label" THEN Work ELSE <<>>] :
                            i \in 1..2 }
                  ELSE { [id |-> 0, label |-> <<>>] }
    /\ \E n \in {0, 1}, outage \in BOOLEAN,
          predicted \in IF cmd \in LearningCommands THEN BOOLEAN ELSE {TRUE} :
        LET ids == IF predicted THEN 1..(n + 2) ELSE (1..(n + 2)) \ {target.id}
        IN
        /\ predictions = [i \in ids |-> RunPrediction(i, n)]
        /\ mailbox = [i \in 1..(n + 2) |->
                        IF outage /\ i = n + 2
                        THEN [RunMail(i, n) EXCEPT !.status = "error"]
                        ELSE RunMail(i, n)]
        /\ order = SelectSeq([k \in 1..(n + 2) |-> k], LAMBDA i : i \in ids)
    /\ pc = "start"
    /\ pending = <<>>
    /\ visited = <<>>
    /\ result = EmptyResult
    /\ content \in IF cmd = "labels_cleanup" THEN CleanupDocuments
                   ELSE {DEFAULT_PROFILE}
    /\ doc0 = content
    /\ prev = content
    /\ ops = <<>>
    /\ chunks = <<>>
    /\ batch = 0
    /\ calls = <<>>
    /\ disk_profile = content
    /\ profile_saves = 0
    /\ disk_predictions = DOMAIN predictions
    /\ reply = <<>>
    /\ extracted = Nothing
    /\ mutations = <<>>
    /\ registry \in IF cmd = "labels_cleanup"
                    THEN [KnownLabels -> {"llm", "provider"}]
                    ELSE { << >> }
    /\ disk_registry = registry
    /\ removed = <<>>
    /\ label_query \in IF cmd = "labels_cleanup"
                       THEN [KnownLabels -> {"mail", "empty", "missing", "error"}]
                       ELSE { << >> }
    /\ user_rules \in IF cmd = "scan" THEN RuleSets ELSE { <<>> }
    /\ inbox \in IF cmd \in {"scan", "summary"}
                 THEN { [i \in 1..k |-> 10 + i] : k \in 0..MaxInbox }
                 ELSE { <<>> }
    /\ report = <<>>
    /\ rule_email = NoEmail
    /\ rule_class = NoClassification
    /\ trace = <<>>
    /\ passes = <<>>

NextCommands ==
    \/ DetectStart
    \/ DetectStep
    \/ DetectDone
    \/ RunReport
    \/ ApplyBatch
    \/ SaveProfile
    \/ CleanupPredictions
    \/ ScanList
    \/ ScanClassify
    \/ ScanSave
    \/ SummaryRun
    \/ CommandFetch
    \/ CommandMutate
    \/ CommandLearn
    \/ CleanupLabels
    \/ CleanupReport

SpecCommands == InitCommands /\ [][NextCommands]_vars

\* ------------------------------------------------- apply_rules on its own
MaxRules == 2

\* rules.json: archive what is addressed to ME@ and is to be deleted
RuleArchiveDeleted ==
    [ condition |-> [ field |-> "to", contains |-> <<"M","E","@">>,
                      and |-> [some |-> TRUE, value |-> "delete"] ],
      action |-> "archive" ]

\* rules.json: delete what has zz in its subject
RuleDeleteSubject ==
    [ condition |-> [ field |-> "subject", contains |-> <<"z","z">>, and |-> Nothing ],
      action |-> "delete" ]

\* rules.json: a rule on a field the engine does not know
RuleOnBody ==
    [ condition |-> [ field |-> "body", contains |-> <<"s">>, and |-> Nothing ],
      action |-> "delete" ]

\* rules.json: a rule with a gate the engine does not know
RuleGateSpam ==
    [ condition |-> [ field |-> "from", contains |-> <<"a","@">>,
                      and |-> [some |-> TRUE, value |-> "spam"] ],
      action |-> "archive" ]

\* rules.json: a rule with an action the engine does not know
RuleLabel ==
    [ condition |-> [ field |-> "to", contains |-> <<"@">>, and |-> Nothing ],
      action |-> "label" ]

RulePool ==
    { RuleDeleteTo, RuleArchiveFrom, RuleDeleteArchived, RuleArchiveDeleted,
      RuleDeleteSubject, RuleOnBody, RuleGateSpam, RuleLabel }

RuleLists == UNION { [1..n -> RulePool] : n \in 0..MaxRules }

RuleEmails ==
    { Email(1),
      [ id |-> 2, from |-> <<"B","@","y">>, to |-> <<"c","@","z">>,
        subject |-> <<"P","i","z","Z","a">> ] }

InitRules ==
    /\ rule_email \in RuleEmails
    /\ \E a, d \in BOOLEAN :
        rule_class = Classification(FALSE, a, d, <<Work>>, <<>>)
    /\ user_rules \in RuleLists
    /\ trace = <<>>
    /\ pc = "start"
    /\ cmd = "rules"
    /\ predictions = << >>
    /\ order = <<>>
    /\ mailbox = << >>
    /\ pending = <<>>
    /\ visited = <<>>
    /\ result = EmptyResult
    /\ content = DEFAULT_PROFILE
    /\ doc0 = content
    /\ prev = content
    /\ ops = <<>>
    /\ dry_run = FALSE
    /\ chunks = <<>>
    /\ batch = 0
    /\ calls = <<>>
    /\ disk_profile = content
    /\ profile_saves = 0
    /\ disk_predictions = {}
    /\ reply = <<>>
    /\ extracted = Nothing
    /\ mutations = <<>>
    /\ registry = << >>
    /\ disk_registry = registry
    /\ removed = <<>>
    /\ target = [id |-> 0, label |-> <<>>]
    /\ label_query = << >>
    /\ inbox = <<>>
    /\ report = <<>>
    /\ passes = <<>>

\* rules::apply_rules(&email, &mut classification, &user_rules); trace keeps
\* the classification as each turn of the loop finds it, and as the last
\* turn leaves it.
ApplyRules ==
    /\ pc = "start"
    /\ cmd = "rules"
    /\ rule_class' = apply_rules(rule_email, rule_class, user_rules)
    /\ trace' = [k \in 1..(Len(user_rules) + 1) |->
                    apply_rules(rule_email, rule_class, SubSeq(user_rules, 1, k - 1))]
    /\ pc' = "ruled"
    /\ UNCHANGED <<storeVars, detectVars, content, histVars, runVars, reply, extracted,
                   mutations, registry, disk_registry, removed, target, label_query,
                   user_rules, rule_email, passes, inbox, report>>

NextRules == ApplyRules

SpecRules == InitRules /\ [][NextRules]_vars

\* ------------------------------------------- learn or scan, run a second time
MaxPassCorrections == 2

\* stripped: the user took every label off email 1, the Classified marker
\* included, and left it in the inbox; scan lists it again (-label:Classified).
\* Email 11 is a new one.
InitTwice ==
    /\ cmd \in {"scan", "learn"}
    /\ \E n \in 0..MaxPassCorrections, with_others \in BOOLEAN, stripped \in BOOLEAN :
        LET ids == 1..(IF with_others THEN n + 2 ELSE n)
        IN
        /\ predictions = [i \in ids |-> RunPrediction(i, n)]
        /\ mailbox = [i \in ids |->
                        IF stripped /\ i = 1 /\ n >= 1
                        THEN [status |-> "ok", labels |-> <<INBOX>>]
                        ELSE RunMail(i, n)]
        /\ order = [k \in 1..Cardinality(ids) |-> k]
        /\ inbox \in IF cmd = "learn" THEN { <<>> }
                      ELSE IF stripped /\ n >= 1 THEN { <<>>, <<1>>, <<11>> }
                      ELSE { <<>>, <<11>> }
    /\ pc = "start"
    /\ pending = <<>>
    /\ visited = <<>>
    /\ result = EmptyResult
    /\ content \in { DEFAULT_PROFILE, Title \o LEARNED_HEADER }
    /\ doc0 = content
    /\ prev = content
    /\ ops = <<>>
    /\ dry_run \in BOOLEAN
    /\ chunks = <<>>
    /\ batch = 0
    /\ calls = <<>>
    /\ disk_profile = content
    /\ profile_saves = 0
    /\ disk_predictions = DOMAIN predictions
    /\ reply = <<>>
    /\ extracted = Nothing
    /\ mutations = <<>>
    /\ registry = << >>
    /\ disk_registry = registry
    /\ removed = <<>>
    /\ target = [id |-> 0, label |-> <<>>]
    /\ label_query = << >>
    /\ user_rules = <<>>
    /\ report = <<>>
    /\ rule_email = NoEmail
    /\ rule_class = NoClassification
    /\ trace = <<>>
    /\ passes = <<>>

\* What a dry run of scan listed and classified, in the order of the list.
Relisted ==
    LET classified == SelectSeq(report, LAMBDA r : r.what = "classified")
    IN  [i \in DOMAIN classified |-> classified[i].items[1]]

\* The command has ended with Ok, having sent no request that changes an
\* email, and the user runs it again with nothing changed at the provider:
\* Profile::load and PredictionStore::load read the files the first run left,
\* and list_messages answers as before.
RunAgain ==
    /\ pc = "done"
    /\ passes = <<>>
    /\ mutations = <<>>
    /\ passes' = << [ corrections |-> result.corrections, content |-> content,
                      disk_profile |-> disk_profile, calls |-> calls ] >>
    /\ pc' = "start"
    /\ content' = disk_profile
    /\ doc0' = disk_profile
    /\ prev' = disk_profile
    /\ ops' = <<>>
    /\ predictions' = [i \in disk_predictions |-> predictions[i]]
    /\ order' = SelectSeq(order, LAMBDA i : i \in disk_predictions)
    /\ pending' = <<>>
    /\ visited' = <<>>
    /\ result' = EmptyResult
    /\ chunks' = <<>>
    /\ batch' = 0
    /\ calls' = <<>>
    /\ profile_saves' = 0
    /\ report' = <<>>
    /\ inbox' = Relisted
    /\ UNCHANGED <<mailbox, cmd, dry_run, disk_profile, disk_predictions, reply,
                   extracted, mutations, registry, disk_registry, removed, target,
                   label_query, user_rules, ruleVars>>

NextTwice ==
    \/ DetectStart
    \/ DetectStep
    \/ DetectDone
    \/ RunReport
    \/ ApplyBatch
    \/ SaveProfile
    \/ CleanupPredictions
    \/ ScanList
    \/ ScanClassify
    \/ ScanSave
    \/ RunAgain

SpecTwice == InitTwice /\ [][NextTwice]_vars

\* ------------------------------------------------ claims on the detector
\* A label with every ASCII letter lowered, and a label list as a set of such.
CaseFold(l) == [i \in DOMAIN l |-> to_ascii_lowercase(l[i])]
FoldSet(ls) == { CaseFold(l) : l \in Range(ls) }

CorrectionsFor(id) ==
    { i \in DOMAIN result.corrections : result.corrections[i].email_id = id }

VisitedIds == Range(visited)

\* C1: a visited prediction whose email no longer exists at the provider has
\* its id in deleted_ids and no Correction.
C1_DeletedNeverCorrected ==
    \A id \in VisitedIds :
        mailbox[id].status = "gone" =>
            /\ id \in Range(result.deleted_ids)
            /\ CorrectionsFor(id) = {}

\* A finished scan with a deleted email next to a corrected one.
C1_Witness ==
    /\ pc = "detected"
    /\ \E id \in VisitedIds :
        mailbox[id].status = "gone" /\ id \in Range(result.deleted_ids)
    /\ result.corrections # <<>>

\* C2: when the email's current labels equal all_labels(P) up to ASCII case
\* and its spam status equals P.is_spam, no Correction is emitted for P.
C2_NoFalsePositiveOnCase ==
    \A id \in VisitedIds :
        ( /\ mailbox[id].status = "ok"
          /\ FoldSet(mailbox[id].labels) = FoldSet(all_labels(predictions[id]))
          /\ (SPAM \in Range(mailbox[id].labels)) = predictions[id].is_spam )
        => CorrectionsFor(id) = {}

\* A visited prediction of "Finance" whose email carries "finance".
C2_Witness ==
    \E id \in VisitedIds :
        /\ mailbox[id].status = "ok"
        /\ all_labels(predictions[id]) = <<Finance>>
        /\ mailbox[id].labels = <<finance_lc>>
        /\ ~ predictions[id].is_spam
        /\ pc = "detected"

\* C3: no Correction lists a provider built-in label, or the Classified
\* marker in any letter case, among its actual_labels.
C3_NoSystemLabelInActual ==
    \A i \in DOMAIN result.corrections :
        \A l \in Range(result.corrections[i].actual_labels) :
            /\ l \notin GmailSystemLabels
            /\ CaseFold(l) # CaseFold(Classified)

\* A Correction for an email that carries INBOX, CLASSIFIED and a user label.
C3_Witness ==
    \E i \in DOMAIN result.corrections :
        LET c == result.corrections[i] IN
            /\ mailbox[c.email_id].labels = <<INBOX, CLASSIFIED_UC, Personal>>
            /\ c.actual_labels = <<Personal>>

IsSystem(l) == l \in GmailSystemLabels \/ CaseFold(l) = CaseFold(Classified)

ShouldCorrect(p, m) ==
    \/ p.is_spam # (SPAM \in Range(m.labels))
    \/ \E pl \in Range(all_labels(p)) : CaseFold(pl) \notin FoldSet(m.labels)
    \/ \E el \in Range(m.labels) :
          ~ IsSystem(el) /\ CaseFold(el) \notin FoldSet(all_labels(p))

\* C4: a fetched prediction gets a Correction exactly when its spam verdict
\* differs from the email's spam membership, or a predicted label is absent
\* (case-insensitively), or a non-system label of the email matches no
\* predicted label; a not-spam prediction whose email carries SPAM gets a
\* Correction with actual_spam = true.
C4_CorrectionIffMismatch ==
    \A id \in VisitedIds :
        mailbox[id].status = "ok" =>
            LET p == predictions[id]
                m == mailbox[id]
            IN  /\ (CorrectionsFor(id) # {}) <=> ShouldCorrect(p, m)
                /\ Cardinality(CorrectionsFor(id)) <= 1
                /\ (~ p.is_spam /\ SPAM \in Range(m.labels)) =>
                      \E i \in CorrectionsFor(id) :
                          /\ result.corrections[i].actual_spam
                          /\ ~ result.corrections[i].predicted_spam

\* The scenario of the spec: predicted Important and not spam, now in SPAM;
\* next to it a label-only correction.
C4_Witness ==
    /\ pc = "detected"
    /\ \E id \in VisitedIds :
        /\ predictions[id].action = <<Important>>
        /\ ~ predictions[id].is_spam
        /\ mailbox[id].status = "ok"
        /\ mailbox[id].labels = <<SPAM>>
        /\ \E i \in CorrectionsFor(id) : result.corrections[i].actual_spam
    /\ \E id \in VisitedIds :
        /\ mailbox[id].status = "ok"
        /\ predictions[id].is_spam = (SPAM \in Range(mailbox[id].labels))
        /\ CorrectionsFor(id) # {}

\* C5: detect_corrections runs to its Ok(result) whatever fetches fail: every
\* stored prediction is visited exactly once, every failed one is in
\* deleted_ids, and every fetched one is judged as it would be alone.
C5_FetchFailureNeverAborts ==
    (pc = "detected" \/ (pc = "detect" /\ pending = <<>>)) =>
        /\ Len(visited) = Cardinality(DOMAIN predictions)
        /\ VisitedIds = DOMAIN predictions
        /\ \A id \in DOMAIN predictions :
            IF mailbox[id].status = "ok"
            THEN /\ id \notin Range(result.deleted_ids)
                 /\ (CorrectionsFor(id) # {}) <=> ShouldCorrect(predictions[id], mailbox[id])
            ELSE /\ Cardinality({ i \in DOMAIN result.deleted_ids :
                                      result.deleted_ids[i] = id }) = 1
                 /\ CorrectionsFor(id) = {}

\* A finished scan whose first fetch failed and whose second found a mismatch.
C5_Witness ==
    /\ pc = "detected"
    /\ Len(visited) = 2
    /\ mailbox[visited[1]].status # "ok"
    /\ mailbox[visited[2]].status = "ok"
    /\ CorrectionsFor(visited[2]) # {}

\* ------------------------------------------ claims on the Profile Document
\* s.split('\n')
SplitLines(s) ==
    LET nls == { i \in DOMAIN s : s[i] = "\n" }
        \* position of the k-th newline; 0 and Len(s) + 1 frame the text
        nl(k) == IF k = 0 THEN 0
                 ELSE IF k > Cardinality(nls) THEN Len(s) + 1
                 ELSE CHOOSE i \in nls : Cardinality({ j \in nls : j < i }) = k - 1
    IN  [k \in 1..(Cardinality(nls) + 1) |-> SubSeq(s, nl(k - 1) + 1, nl(k) - 1)]

Min(S) == CHOOSE x \in S : \A y \in S : x <= y

\* pat stands in doc at the 0-based offset i.
At(doc, i, pat) == i + Len(pat) <= Len(doc) /\ Slice(doc, i, i + Len(pat)) = pat

\* 0-based offsets at which `line` stands as a whole line of doc.
LineOffsets(doc, line) ==
    { i \in 0..(Len(doc) - Len(line)) :
        /\ Slice(doc, i, i + Len(line)) = line
        /\ i = 0 \/ doc[i] = "\n"
        /\ i + Len(line) = Len(doc) \/ doc[i + Len(line) + 1] = "\n" }

StartsWith(s, pre) == Len(s) >= Len(pre) /\ SubSeq(s, 1, Len(pre)) = pre

IsHeaderLine(l) == StartsWith(l, <<"#","#"," ">>) \/ StartsWith(l, SECTION_PREFIX)

RECURSIVE Concat(_)
Concat(ss) == IF ss = <<>> THEN <<>> ELSE Head(ss) \o Concat(Tail(ss))

Reverse(ss) == [i \in DOMAIN ss |-> ss[Len(ss) + 1 - i]]

AppendedEntries == [i \in DOMAIN ops |-> Entry(ops[i].arg)]

OnlyAppends == ops # <<>> /\ \A i \in DOMAIN ops : ops[i].op = "append"

\* The loaded document has the header on a line of its own, the first place
\* where the header text occurs, followed by a prior entry.
HasPriorEntries(doc) ==
    /\ LineOffsets(doc, LEARNED_HEADER) # {}
    /\ Min(LineOffsets(doc, LEARNED_HEADER)) = Min(Occurrences(doc, LEARNED_HEADER))
    /\ LET h == Min(LineOffsets(doc, LEARNED_HEADER)) + Len(LEARNED_HEADER)
       IN  At(doc, h, <<"\n", "-", " ">>)

\* Offset just behind the newline of the first header line.
AfterHeader(doc) ==
    Min(LineOffsets(doc, LEARNED_HEADER)) + Len(LEARNED_HEADER) + 1

\* C6 (as stated): after N appends to a document with prior entries, the N new
\* lines stand in the section in the order in which they were appended.
C6_Original ==
    (OnlyAppends /\ HasPriorEntries(doc0)) =>
        \E q \in AfterHeader(doc0)..Len(doc0) :
            content = insert_str(doc0, q, Concat(AppendedEntries))

\* C6 (amended): after N appends to a document with prior entries, the section
\* holds every prior entry and the N new lines, the new lines directly behind
\* the header line, the most recently appended first.
C6_NewestFirst ==
    (OnlyAppends /\ HasPriorEntries(doc0)) =>
        content = insert_str(doc0, AfterHeader(doc0),
                             Concat(Reverse(AppendedEntries)))

\* Two different corrections appended to a document with a prior entry.
C6_Witness ==
    /\ OnlyAppends
    /\ HasPriorEntries(doc0)
    /\ Len(ops) >= 2
    /\ ops[1].arg # ops[2].arg

LastOp == ops[Len(ops)]

\* C7: append_correction on a document with a "## Learned Corrections" header
\* line adds the line "- <correction>" right after that header line and
\* leaves every other line as it was.
C7_InsertsLineAfterHeader ==
    ( /\ ops # <<>>
      /\ LastOp.op = "append"
      /\ \E k \in DOMAIN SplitLines(prev) : SplitLines(prev)[k] = LEARNED_HEADER )
    => LET ls == SplitLines(prev)
           k == Min({ i \in DOMAIN ls : ls[i] = LEARNED_HEADER })
       IN  SplitLines(content) =
               SubSeq(ls, 1, k) \o << <<"-", " ">> \o LastOp.arg >>
                                \o SubSeq(ls, k + 1, Len(ls))

\* Offset of the newline in front of the nearest header behind `from`, or the
\* end of the document.
NextHeader(doc, from) ==
    LET C == { j \in from..Len(doc) :
                 At(doc, j, NEXT_SECTION) \/ At(doc, j, NEXT_SUBSECTION) }
    IN  IF C = {} THEN Len(doc) ELSE Min(C)

\* C8: remove_label_rules(L) deletes the text from the "### L" header up to
\* the nearest following "### " or "## " header, whichever comes first, or up
\* to the end of the document.  (Stated for the documents in which the text
\* "### L" first occurs as that header line; C9 covers the others.)
C8_RemovesUpToNearestHeader ==
    ( /\ ops # <<>>
      /\ LastOp.op = "remove"
      /\ LineOffsets(prev, SECTION_PREFIX \o LastOp.arg) # {}
      /\ Min(LineOffsets(prev, SECTION_PREFIX \o LastOp.arg))
            = Min(Occurrences(prev, SECTION_PREFIX \o LastOp.arg)) )
    => LET start == Min(LineOffsets(prev, SECTION_PREFIX \o LastOp.arg))
           end == NextHeader(prev, start)
       IN  content = Slice(prev, 0, start) \o Slice(prev, end, Len(prev))

NonEmptyLines(ls) == SelectSeq(ls, LAMBDA l : l # <<>>)

\* C9: remove_label_rules(L) takes away the lines of the section headed
\* "### L" and no other line, and leaves a document without such a section
\* unchanged.
C9_OtherSectionsUntouched ==
    (ops # <<>> /\ LastOp.op = "remove") =>
        LET ls == SplitLines(prev)
            hs == { i \in DOMAIN ls : ls[i] = SECTION_PREFIX \o LastOp.arg }
        IN  IF hs = {}
            THEN content = prev
            ELSE LET k0 == Min(hs)
                     nx == { i \in (k0 + 1)..Len(ls) : IsHeaderLine(ls[i]) }
                     k1 == IF nx = {} THEN Len(ls) + 1 ELSE Min(nx)
                 IN  NonEmptyLines(SplitLines(content)) =
                         NonEmptyLines(SubSeq(ls, 1, k0 - 1) \o SubSeq(ls, k1, Len(ls)))


\* -------------------------------------------------- claims on the batch loop
\* The batch loop of this run is over.
BatchLoopOver == pc \notin {"start", "detect", "detected", "apply"}

\* No call of the external rewrite returned Err.
NoFailingCall == \A k \in DOMAIN calls : calls[k].kind \notin ErrKinds

CallBatches == [k \in DOMAIN calls |-> calls[k].batch]

CeilDiv(n, d) == (n + d - 1) \div d

\* C10: in a scan or learn run that is not a dry run, detected N > 0
\* corrections and saw no failing call, the batches handed to the external
\* rewrite are non-empty, hold at most 25 corrections each, read one after
\* the other are exactly the corrections in detection order (every correction
\* in exactly one batch), and number ceil(N / 25): one call per batch.
C10_BatchesPartitionCorrections ==
    (BatchLoopOver /\ ~ dry_run /\ had_corrections /\ NoFailingCall)
        => /\ Len(calls) = CeilDiv(Len(result.corrections), BATCH_SIZE)
           /\ \A k \in DOMAIN calls :
                Len(calls[k].batch) >= 1 /\ Len(calls[k].batch) <= BATCH_SIZE
           /\ Concat(CallBatches) = CorrectionIds
           /\ Cardinality(Range(CorrectionIds)) = Len(CorrectionIds)

\* A run with the largest correction list has gone through its batch loop
\* without a failing call: three calls, the last one for a short batch.
C10_Witness ==
    /\ BatchLoopOver /\ ~ dry_run /\ NoFailingCall
    /\ Len(result.corrections) = MaxCorrections
    /\ Len(calls) = 3
    /\ Len(calls[3].batch) < BATCH_SIZE
    /\ pc \in {"classify", "done"}


\* The content of the Profile Document when call k has returned: the text
\* the call answered with if it gave one, else the content it was sent.
ContentAfter(k) ==
    LET got == get_batched_profile_update([kind |-> calls[k].kind,
                                           stdout |-> calls[k].stdout])
    IN  IF got.ok /\ got.update.some THEN got.update.value ELSE calls[k].profile

\* C11: a failing external call of one batch never aborts the correction run,
\* in scan and in learn alike: the run does not stop inside the batch loop,
\* every batch is attempted, each later batch works from the content the
\* batch before it left, and the saved profile is the content left by the
\* last batch.
C11_BatchFailureNeverAborts ==
    (BatchLoopOver /\ ~ dry_run /\ had_corrections)
        => /\ batch = Len(chunks)
           /\ Len(calls) = Len(chunks)
           /\ \A k \in 2..Len(calls) : calls[k].base = ContentAfter(k - 1)
           /\ pc \in {"cleanup", "classify", "done"}
                => disk_profile = ContentAfter(Len(calls))


\* What call k answered, as apply_corrections sees it.
Answer(k) ==
    get_batched_profile_update([kind |-> calls[k].kind, stdout |-> calls[k].stdout])

\* The content call k left behind is c: it is the content of the document
\* when k is the latest call, and else the content the next batch started
\* from.
LeftBehind(k, c) ==
    IF k = Len(calls) THEN content = c ELSE calls[k + 1].base = c

\* C12: when the external call of a batch returns a replacement text R, the
\* content of the Profile Document after that batch is exactly R, and the
\* request of the next batch is built from R, not from the content before R.
C12_ReplacementIsWholeDocument ==
    \A k \in DOMAIN calls :
        LET got == Answer(k)
        IN  (got.ok /\ got.update.some) => LeftBehind(k, got.update.value)

\* The first of several calls returned a replacement, and the second call was
\* sent a text that differs from what the content before the replacement
\* would have given.
C12_Witness ==
    /\ Len(calls) >= 2
    /\ Answer(1).ok /\ Answer(1).update.some
    /\ calls[2].base = Answer(1).update.value
    /\ calls[2].base # calls[1].profile
    /\ calls[2].profile = record_corrections(calls[2].base, chunks[2], 1)

\* The process of call k exited with success and its output holds the token
\* NO_UPDATE_NEEDED or no profile text that extract_profile_update finds.
NoUpdateProduced(k) ==
    /\ calls[k].kind = "exit_success"
    /\ \/ contains(trim(calls[k].stdout), NO_UPDATE_NEEDED)
       \/ ~ extract_profile_update(trim(calls[k].stdout)).some

\* C13: an answer that is NO_UPDATE_NEEDED or holds no extractable profile
\* text is a success of apply_corrections, not an error: the content stays
\* what it was when the call was made (the logged corrections included), no
\* replace happens, and the run does not stop in the batch loop.
C13_NoUpdateIsNotAnError ==
    \A k \in DOMAIN calls :
        NoUpdateProduced(k)
            => /\ LeftBehind(k, calls[k].profile)
               /\ (k = Len(calls) /\ pc = "failed") => batch = Len(chunks)
               /\ (k = Len(calls) /\ pc # "failed") => batch = k

\* A learn run went past a batch that was answered with NO_UPDATE_NEEDED and
\* past one answered with a refusal.
C13_Witness ==
    /\ cmd = "learn" /\ Len(calls) >= 3
    /\ calls[1].stdout = RewriteNoUpdate /\ NoUpdateProduced(1)
    /\ calls[2].stdout = RewriteRefusal /\ NoUpdateProduced(2)
    /\ calls[2].base = calls[1].profile


\* ------------------------------------------- extract_profile_update alone
MaxTokens == 5

MARKDOWN_TAG == <<"m","a","r","k","d","o","w","n">>

\* The pieces the responses are put together from.
ResponseTokens ==
    { FENCE, MARKDOWN_TAG, <<"\n">>, <<" ">>, <<"x">>, PROFILE_TITLE }

RECURSIVE Responses(_)
Responses(n) ==
    IF n = 0 THEN { <<>> }
    ELSE LET shorter == Responses(n - 1)
         IN  shorter \cup { r \o t : r \in shorter, t \in ResponseTokens }

\* extract_profile_update(&response)
ExtractReply ==
    /\ pc = "reply"
    /\ extracted' = extract_profile_update(reply)
    /\ pc' = "extracted"
    /\ UNCHANGED <<storeVars, detectVars, content, histVars, runVars, reply,
                   mutVars, report>>

InitExtract ==
    /\ predictions = << >>
    /\ order = <<>>
    /\ mailbox = << >>
    /\ pc = "reply"
    /\ pending = <<>>
    /\ visited = <<>>
    /\ result = EmptyResult
    /\ content = DEFAULT_PROFILE
    /\ doc0 = content
    /\ prev = content
    /\ ops = <<>>
    /\ cmd = "none"
    /\ dry_run = FALSE
    /\ chunks = <<>>
    /\ batch = 0
    /\ calls = <<>>
    /\ disk_profile = content
    /\ profile_saves = 0
    /\ disk_predictions = {}
    /\ reply \in Responses(MaxTokens)
    /\ extracted = Nothing
    /\ mutations = <<>>
    /\ registry = << >>
    /\ disk_registry = registry
    /\ removed = <<>>
    /\ target = [id |-> 0, label |-> <<>>]
    /\ label_query = << >>
    /\ user_rules = <<>>
    /\ inbox = <<>>
    /\ report = <<>>
    /\ rule_email = NoEmail
    /\ rule_class = NoClassification
    /\ trace = <<>>
    /\ passes = <<>>

NextExtract == ExtractReply

SpecExtract == InitExtract /\ [][NextExtract]_vars

\* ----------------------------------------- claims on extract_profile_update
\* The offsets of the code fences of r from offset from on, left to right.
RECURSIVE FenceOffsets(_, _)
FenceOffsets(r, from) ==
    LET i == find(Slice(r, from, Len(r)), FENCE)
    IN  IF i = None THEN <<>>
        ELSE <<from + i>> \o FenceOffsets(r, from + i + Len(FENCE))

\* The text between fence k and fence k + 1 of r.
Fenced(r, fs, k) == Slice(r, fs[k] + Len(FENCE), fs[k + 1])

\* A fenced text without its first line (the language line), when it has one.
SkipLanguageLine(text) ==
    LET nl == find(text, <<"\n">>)
    IN  IF nl = None THEN text ELSE Slice(text, nl + 1, Len(text))

\* The result the priority rule asks for.
ExpectedExtract(r) ==
    LET fs == FenceOffsets(r, 0)
        tagged == { k \in 1..(Len(fs) - 1) :
                        starts_with(Fenced(r, fs, k), MARKDOWN_TAG) }
        first == CHOOSE k \in tagged : \A j \in tagged : k <= j
        text == Fenced(r, fs, first)
    IN  IF tagged # {}
        THEN Some(trim(Slice(text, Len(MARKDOWN_TAG), Len(text))))
        ELSE IF Len(fs) >= 2
        THEN Some(trim(SkipLanguageLine(Fenced(r, fs, 1))))
        ELSE IF starts_with(trim(r), PROFILE_TITLE)
        THEN Some(trim(r))
        ELSE Nothing

\* C14: extract_profile_update picks its result by strict priority: the
\* trimmed content of the first closed fenced block tagged markdown; else the
\* trimmed content of the first closed fenced block of any kind, its language
\* line skipped; else the whole trimmed response when it begins with the
\* title line; else no update.
C14_ExtractByPriority ==
    pc = "extracted" => extracted = ExpectedExtract(reply)


\* ------------------------------------------------ claims on the log lines
\* 0-based offsets of doc at which a line starts with "- ".
EntryLineStarts(doc) ==
    { i \in 0..(Len(doc) - 2) :
        /\ doc[i + 1] = "-" /\ doc[i + 2] = " "
        /\ i = 0 \/ doc[i] = "\n" }

\* What the log line of correction c has to say.
SaysWhatHappened(c, line) ==
    IF c.predicted_spam # c.actual_spam /\ c.actual_spam
    THEN contains(line, MARKED_SPAM)
    ELSE IF c.predicted_spam # c.actual_spam
    THEN contains(line, UNMARKED_SPAM)
    ELSE /\ contains(line, RELABELED)
         /\ contains(line, PREDICTED_PART \o DebugVec(c.predicted_labels))
         /\ contains(line, ACTUAL_PART \o DebugVec(c.actual_labels))

\* The text stands as a whole line of doc somewhere behind the line of the
\* "## Learned Corrections" header.
LineInLearnedSection(doc, text) ==
    LET headers == LineOffsets(doc, LEARNED_HEADER)
    IN  /\ headers # {}
        /\ \E o \in LineOffsets(doc, text) : o > Min(headers)

\* The content sent with call k holds the log lines of batch k.
LoggedBeforeCall(k) ==
    LET chunk == chunks[k]
        text == calls[k].profile
    IN  /\ Cardinality(EntryLineStarts(text))
            = Cardinality(EntryLineStarts(calls[k].base)) + Len(chunk)
        /\ \A i \in DOMAIN chunk :
            LET said == description(chunk[i])
            IN  /\ SaysWhatHappened(chunk[i], said)
                /\ LineInLearnedSection(text, <<"-", " ">> \o said)

\* C15: when the external call of a batch is made, the content holds one more
\* log line for every correction of the batch than before, each a line of
\* its own in the "Learned Corrections" section that says the user marked
\* the email as spam, unmarked spam (false positive), or relabeled it with
\* the predicted and the actual labels.
C15_OneLogLinePerCorrection == \A k \in DOMAIN calls : LoggedBeforeCall(k)


\* ------------------------------------------------ claims on the final save
\* The command is over, or scan has come to its classification step.
RunEnded == pc \in {"classify", "done", "failed"}

\* Profile::save itself returned an error.
SaveFailed == pc = "failed" /\ batch = Len(chunks)

\* C16: a scan or learn run that is not a dry run and detected a correction
\* writes the profile file exactly once, and only when every batch has been
\* attempted: no save while the batch loop runs.
C16_SavedOnceAfterAllBatches ==
    /\ profile_saves <= 1
    /\ pc = "apply" => profile_saves = 0
    /\ profile_saves = 1 => (batch = Len(chunks) /\ Len(calls) = Len(chunks))
    /\ (RunEnded /\ ~ dry_run /\ had_corrections /\ ~ SaveFailed)
            => profile_saves = 1

\* ------------------------------------------------- claims on the dry run
Reported(what, items) ==
    \E i \in DOMAIN report : report[i] = [what |-> what, items |-> items]

\* What a dry run has listed by the time it is past the listing.
DryRunReports ==
    /\ (cmd \in {"scan", "learn"} /\ pc \notin {"start", "detect", "detected"}
            /\ had_corrections)
        => Reported("corrections", CorrectionIds)
    /\ (cmd = "learn" /\ pc = "done" /\ result.deleted_ids # <<>>)
        => Reported("deleted", result.deleted_ids)
    /\ (cmd = "labels_cleanup" /\ pc = "done" /\ removed # <<>>)
        => Reported("would_remove", removed)
    /\ (cmd \in ActionCommands /\ pc = "done") => Reported("would", <<target.id>>)

\* C17: with dry_run set no step of any command sends a mutation to the
\* provider or writes the profile file, the predictions file or the labels
\* file, and the corrections, the deleted emails and the labels that would
\* be removed are listed all the same.
C17_DryRunTouchesNothing ==
    /\ [][dry_run => UNCHANGED <<mutations, disk_profile, profile_saves,
                                 disk_predictions, disk_registry>>]_vars
    /\ [](dry_run => DryRunReports)

\* A dry run of scan that found a correction and classified an email ends.
C17_Witness ==
    /\ dry_run
    /\ pc = "done"
    /\ cmd = "scan"
    /\ had_corrections
    /\ Reported("corrections", CorrectionIds)
    /\ Reported("classified", <<11>>)
    /\ Reported("would_save", <<>>)

\* ------------------------------------- claims on single-action learning
FailureKinds == {"spawn_error", "exit_failure", "timeout"}

LearningCallFailed ==
    /\ cmd \in LearningCommands
    /\ calls # <<>>
    /\ calls[Len(calls)].kind \in FailureKinds

\* C18: in the spam, unspam and label commands a call of the external
\* process that cannot be spawned, exits with a failure status or times out
\* ends the command with that error, and the profile file is not written in
\* that run.
C18_LearningFailureIsHard ==
    LearningCallFailed =>
        /\ pc = "failed"
        /\ profile_saves = 0
        /\ disk_profile = doc0

\* spam has marked the email and the external process exits with a failure.
C18_Witness ==
    /\ cmd = "spam"
    /\ Len(mutations) = 1
    /\ mutations[1].op = "mark_spam"
    /\ mutations[1].ok
    /\ LearningCallFailed
    /\ calls[1].kind = "exit_failure"
    /\ pc = "failed"

\* ---------------------------------------- claims on the external process
\* C19: every call of the external process sits under a timeout, so no
\* command is ever left waiting on a process that never answers: the call
\* ends as a timeout and the command ends.
C19_NoCallWaitsForEver ==
    /\ pc # "hung"
    /\ \A k \in DOMAIN calls : calls[k].kind # "hung"

\* ------------------------------------------------ claims on labels cleanup
HasSection(doc, label) ==
    \E i \in DOMAIN SplitLines(doc) : SplitLines(doc)[i] = SECTION_PREFIX \o label

\* The llm labels of the registry as loaded for which the provider answers
\* with no email or says that the label does not exist.
UnusedLlmLabels ==
    { n \in DOMAIN disk_registry :
        disk_registry[n] = "llm" /\ label_query[n] \in {"empty", "missing"} }

\* C20: cleanup removes from the registry and from the label sections of the
\* profile exactly the llm labels for which the provider returns no email or
\* reports that the label does not exist; the labels of the provider and the
\* llm labels with an email stay, and the list returned holds exactly the
\* names removed.
C20_CleanupRemovesExactlyUnused ==
    (cmd = "labels_cleanup" /\ pc = "cleaned") =>
        /\ Range(removed) = UnusedLlmLabels
        /\ Len(removed) = Cardinality(UnusedLlmLabels)
        /\ DOMAIN registry = DOMAIN disk_registry \ UnusedLlmLabels
        /\ \A n \in DOMAIN registry : registry[n] = disk_registry[n]
        /\ \A n \in KnownLabels \cup {Workshop} :
            HasSection(content, n) <=> (HasSection(doc0, n) /\ n \notin UnusedLlmLabels)

\* ---------------------------------------------------- claims on the rules
\* The rules the rule file is meant to hold: a known field, no gate or the
\* gate archive or delete, and the action delete or archive.
WellFormed(rule) ==
    /\ rule.condition.field \in {"to", "from", "subject"}
    /\ rule.condition.and.some => rule.condition.and.value \in {"archive", "delete"}
    /\ rule.action \in {"delete", "archive"}

\* text holds part, letter case aside.
HoldsIgnoringCase(text, part) ==
    \E i \in 0..(Len(text) - Len(part)) :
        CaseFold(Slice(text, i, i + Len(part))) = CaseFold(part)

GateOpen(c, gate) ==
    IF ~ gate.some THEN TRUE
    ELSE IF gate.value = "archive" THEN c.archive
    ELSE c.delete

ShouldFire(c, rule) ==
    /\ HoldsIgnoringCase(rule_email[rule.condition.field], rule.condition.contains)
    /\ GateOpen(c, rule.condition.and)

Outcome(c, rule) ==
    IF ~ ShouldFire(c, rule) THEN c
    ELSE IF rule.action = "delete" THEN [c EXCEPT !.delete = TRUE, !.archive = FALSE]
    ELSE [c EXCEPT !.archive = TRUE]

\* C21: a rule fires exactly when its field holds its substring, letter case
\* aside, and its gate, if it has one, is true in the classification as the
\* rule finds it; a firing delete rule sets delete and clears archive, a
\* firing archive rule sets archive, and no other rule changes anything.
C21_RuleFiresOnMatchAndGate ==
    pc = "ruled" =>
        \A k \in DOMAIN user_rules :
            WellFormed(user_rules[k]) => trace[k + 1] = Outcome(trace[k], user_rules[k])

\* An archive rule fires on a sender written in another letter case, and a
\* delete rule, also matched across letter case, then sets delete and clears
\* archive.
C21_Witness ==
    /\ pc = "ruled"
    /\ rule_email = Email(1)
    /\ user_rules = <<RuleArchiveFrom, RuleDeleteTo>>
    /\ ~ trace[1].archive /\ ~ trace[1].delete
    /\ trace[2].archive /\ ~ trace[2].delete
    /\ ~ trace[3].archive /\ trace[3].delete

RECURSIVE LeftFold(_, _)
LeftFold(c, rules) ==
    IF rules = <<>> THEN c
    ELSE LeftFold(Outcome(c, Head(rules)), Tail(rules))

\* C22: the rules are applied in the order of the list, each gate looking at
\* the classification as the earlier rules left it, so the flags at the end
\* are the fold of the rules from the left over the classification given.
C22_RulesFoldLeftToRight ==
    (pc = "ruled" /\ \A k \in DOMAIN user_rules : WellFormed(user_rules[k])) =>
        rule_class = LeftFold(trace[1], user_rules)

\* The second rule fires only because the first one set delete, and it sets
\* archive again after the first one cleared it.
C22_Witness ==
    /\ pc = "ruled"
    /\ rule_email = Email(1)
    /\ user_rules = <<RuleDeleteTo, RuleArchiveDeleted>>
    /\ trace[1].archive /\ ~ trace[1].delete
    /\ ~ trace[2].archive /\ trace[2].delete
    /\ rule_class.archive /\ rule_class.delete

\* ------------------------------------------- claims on the corrections log
\* doc has the header on a line of its own and, on a later line, the entry
\* of correction.
HeaderThenEntry(doc, correction) ==
    LET ls == SplitLines(doc)
    IN  \E h, e \in DOMAIN ls :
            /\ ls[h] = LEARNED_HEADER
            /\ h < e
            /\ ls[e] = <<"-", " ">> \o correction

\* C30: after append_correction(c), whatever the document was, the header
\* "## Learned Corrections" stands alone on a line and the entry "- c" stands
\* on a line of its own behind it.
C30_EntryOnOwnLineBehindHeader ==
    (ops # <<>> /\ LastOp.op = "append") => HeaderThenEntry(content, LastOp.arg)

\* The entries that apply_corrections has logged for the batch of call k.
LoggedEntries(k) ==
    { Entry(description(chunks[k][i])) : i \in DOMAIN chunks[k] }

\* C23: the corrections section is an append-only log: every entry logged
\* earlier in the run is still in the profile, also after the text returned
\* by the external rewrite has replaced the document.
C23_LoggedEntriesStay ==
    cmd \in {"scan", "learn"} =>
        \A k \in DOMAIN calls : \A entry \in LoggedEntries(k) : contains(content, entry)

\* ------------------------------------------- claims on the Prediction Store
\* C24: scan and learn remove a prediction, from the store and from its
\* file, only when the email is gone at the provider; the prediction of an
\* email that is still there, a failed fetch included, stays.
C24_OnlyGoneEmailsForgotten ==
    cmd \in {"scan", "learn"} =>
        \A id \in DOMAIN mailbox :
            (id \notin DOMAIN predictions \/ id \notin disk_predictions)
                => mailbox[id].status = "gone"

\* C25: the request of learn_from_action tells the external process of the
\* stored prediction of the email, its spam verdict and the labels it
\* predicted (theme and action labels), and of no previous prediction when
\* the store has none.
C25_RequestCarriesPrediction ==
    (cmd \in LearningCommands /\ calls # <<>>) =>
        LET said == calls[1].context
        IN  IF target.id \in DOMAIN predictions
            THEN /\ said.previous
                 /\ said.is_spam = predictions[target.id].is_spam
                 /\ said.labels = all_labels(predictions[target.id])
            ELSE ~ said.previous

\* The requests about email id that the provider accepted, in order.
AcceptedFor(id) == SelectSeq(mutations, LAMBDA req : req.id = id /\ req.ok)

\* The labels of an email that was listed from the inbox and that nothing
\* but the accepted requests has touched.
RECURSIVE LabelsAfter(_, _)
LabelsAfter(labels, reqs) ==
    IF reqs = <<>> THEN labels
    ELSE LET req == Head(reqs)
             next == CASE req.op = "add_label" ->
                            IF req.label \in Range(labels) THEN labels
                            ELSE Append(labels, req.label)
                      [] req.op = "mark_spam" ->
                            Append(SelectSeq(labels, LAMBDA l : l # INBOX), SPAM)
                      [] req.op = "unspam" ->
                            Append(SelectSeq(labels, LAMBDA l : l # SPAM), INBOX)
                      [] OTHER -> SelectSeq(labels, LAMBDA l : l # INBOX)
         IN  LabelsAfter(next, Tail(reqs))

UntouchedMail(id) ==
    [status |-> "ok", labels |-> LabelsAfter(<<INBOX>>, AcceptedFor(id))]

\* The emails this scan classified and stored a prediction for.
StoredByScan == DOMAIN predictions \ DOMAIN mailbox

\* C26: an email that a scan classified and stored, and that the user has
\* not touched since, gives no correction at the next detect_corrections,
\* whatever the classification was and also when the provider refused one of
\* the predicted labels.
C26_UntouchedEmailNoCorrection ==
    (cmd = "scan" /\ ~ dry_run) =>
        \A id \in StoredByScan : ~ is_mismatch(predictions[id], UntouchedMail(id))

\* The emails to which this run has put the Classified marker.
MarkedClassified ==
    { mutations[i].id : i \in { j \in DOMAIN mutations :
                                    /\ mutations[j].op = "add_label"
                                    /\ mutations[j].label = Classified
                                    /\ mutations[j].ok } }

\* The scan has ended with an error while emails were still to be classified.
ScanAborted == pc = "failed" /\ inbox # <<>>

\* C27: once a scan that is no dry run has ended, be it at its end or with
\* the error of a later classification, every email it marked as Classified
\* has a prediction in the predictions file.
C27_MarkedEmailsArePersisted ==
    (cmd = "scan" /\ ~ dry_run /\ (pc = "done" \/ ScanAborted)) =>
        MarkedClassified \subseteq disk_predictions

\* ------------------------------------- claims on saving what was learned
\* What learn_from_action returned for the call of this command.
Learned == learn_from_action(calls[1])

\* C28: when learn_from_action of spam, unspam or label returns a new
\* profile text and the command has saved, the profile file holds that text.
C28_SavedProfileIsTheUpdate ==
    ( /\ cmd \in LearningCommands
      /\ pc = "done"
      /\ calls # <<>>
      /\ Learned.ok /\ Learned.update.some )
    => disk_profile = Learned.update.value

\* ------------------------------------------------ claims on a second pass
\* How often the entry text stands in doc.
Count(doc, entry) == Cardinality(Occurrences(doc, entry))

\* How many corrections of the batch of call k are logged with that text.
Multiplicity(k, entry) ==
    Cardinality({ i \in DOMAIN chunks[k] : Entry(description(chunks[k][i])) = entry })

\* The stored prediction of every corrected email is in the store and in its
\* file, with the verdict and the labels the correction was detected from.
CorrectedPredictionsKept ==
    \A i \in DOMAIN result.corrections :
        LET c == result.corrections[i]
        IN  /\ c.email_id \in DOMAIN predictions
            /\ c.email_id \in disk_predictions
            /\ predictions[c.email_id].is_spam = c.predicted_spam
            /\ all_labels(predictions[c.email_id]) = c.predicted_labels

\* C29: a pass of learn or scan leaves the stored predictions of the emails
\* it corrected as they are, so a second pass over an unchanged provider
\* detects the same corrections again and logs each of them into the profile
\* once more.
C29_SecondPassRepeatsCorrections ==
    /\ pc \notin {"start", "detect"} => CorrectedPredictionsKept
    /\ (passes # <<>> /\ pc \notin {"start", "detect"})
        => /\ result.corrections = passes[1].corrections
           /\ \A k \in DOMAIN calls : \A entry \in LoggedEntries(k) :
                Count(calls[k].profile, entry)
                    = Count(calls[k].base, entry) + Multiplicity(k, entry)

====
